---- MODULE Spec2Model ----
(***************************************************************************)
(* Verification model of harmony-go: the O200k segmenter and BPE core,     *)
(* the Harmony message/conversation renderer (sequential and parallel      *)
(* paths) and the streaming parser.                                        *)
(*                                                                         *)
(* Text is modelled byte by byte: a Go string is a sequence of bytes, a    *)
(* byte is a TLA+ string ("a", ":", " " for ASCII, "xC3" for a high byte). *)
(* Go indices are 0-based and are kept 0-based in operator arguments.      *)
(***************************************************************************)
EXTENDS Integers, Sequences, FiniteSets, TLC

(***************************************************************************)
(* Bytes, runes and Go string helpers                                      *)
(***************************************************************************)

\* s[a:b] of Go (0-based, half open).
Slice(s, a, b) == SubSeq(s, a + 1, b)

\* s[a:] of Go.
SliceFrom(s, a) == SubSeq(s, a + 1, Len(s))

\* s[i] of Go.
At(s, i) == s[i + 1]

VT == "x0B"

HighBytes == {"xC3", "xA9", "xC2", "xA0"}

LowerLetters ==
  {"a","b","c","d","e","f","g","h","i","j","k","l","m",
   "n","o","p","q","r","s","t","u","v","w","x","y","z"}

UpperLetters ==
  {"A","B","C","D","E","F","G","H","I","J","K","L","M",
   "N","O","P","Q","R","S","T","U","V","W","X","Y","Z"}

Digits == {"0","1","2","3","4","5","6","7","8","9"}

\* A space test that knows the blank only.
isASCIISpace_BlankOnly(b) == b = " "

isASCIISpace(b) == b \in {" ", "\t", "\n", "\r", "\f", VT}



isASCIILetter(b) == b \in LowerLetters \cup UpperLetters

isASCIIDigit(b) == b \in Digits

\* b < utf8.RuneSelf
IsASCIIByte(b) == b \notin HighBytes

RuneError == "U+FFFD"

\* utf8.DecodeRuneInString(s[j:]): the rune and its width in bytes.  The
\* model knows two two-byte runes (U+00E9, a letter; U+00A0, a space);
\* every other high byte is an invalid encoding of width 1.
utf8DecodeRuneInString(s, j) ==
  LET b == At(s, j) IN
  IF IsASCIIByte(b) THEN [r |-> b, size |-> 1]
  ELSE IF b = "xC3" /\ j + 1 < Len(s) /\ At(s, j + 1) = "xA9"
         THEN [r |-> "U+00E9", size |-> 2]
  ELSE IF b = "xC2" /\ j + 1 < Len(s) /\ At(s, j + 1) = "xA0"
         THEN [r |-> "U+00A0", size |-> 2]
  ELSE [r |-> RuneError, size |-> 1]

isL(r) == r \in LowerLetters \cup UpperLetters \cup {"U+00E9"}

isN(r) == r \in Digits

isSpace(r) == r \in {" ", "\t", "\n", "\r", "\f", VT, "U+00A0"}

(***************************************************************************)
(* tokenizer/segmenter.go: the 7-rule O200k splitter                       *)
(***************************************************************************)

UpperSeq ==
  <<"A","B","C","D","E","F","G","H","I","J","K","L","M",
    "N","O","P","Q","R","S","T","U","V","W","X","Y","Z">>

LowerSeq ==
  <<"a","b","c","d","e","f","g","h","i","j","k","l","m",
    "n","o","p","q","r","s","t","u","v","w","x","y","z">>

\* a|0x20 for the bytes the contraction matcher compares against lower-case
\* suffix letters: an upper-case letter maps to its lower-case form.
OrBit20(a) ==
  IF a \in UpperLetters
    THEN LowerSeq[CHOOSE k \in 1..26 : UpperSeq[k] = a]
    ELSE a

\* Rule 6 scan: is s[j:] entirely whitespace?
RECURSIVE allWSFrom(_, _)
allWSFrom(s, j) ==
  IF j >= Len(s) THEN TRUE
  ELSE LET b == At(s, j) IN
       IF IsASCIIByte(b)
         THEN IF ~isASCIISpace(b) THEN FALSE ELSE allWSFrom(s, j + 1)
         ELSE LET d == utf8DecodeRuneInString(s, j) IN
              IF ~isSpace(d.r) THEN FALSE ELSE allWSFrom(s, j + d.size)

RECURSIVE consumeLetterRun(_, _)
consumeLetterRun(s, j) ==
  IF j >= Len(s) THEN j
  ELSE LET b == At(s, j) IN
       IF IsASCIIByte(b)
         THEN IF ~isASCIILetter(b) THEN j ELSE consumeLetterRun(s, j + 1)
         ELSE LET d == utf8DecodeRuneInString(s, j) IN
              IF ~isL(d.r) THEN j ELSE consumeLetterRun(s, j + d.size)

hasCaseInsensitiveSuffixAt(s, i, suf) ==
  IF i + Len(suf) > Len(s) THEN FALSE
  ELSE \A k \in 0..(Len(suf) - 1) :
         OrBit20(At(s, i + k)) = OrBit20(At(suf, k))

ContractionSuffixes ==
  << <<"s">>, <<"t">>, <<"r","e">>, <<"v","e">>, <<"m">>, <<"l","l">>, <<"d">> >>

matchContraction(s, i) ==
  IF i >= Len(s) \/ At(s, i) # "'" THEN i
  ELSE LET firstOf(hits) ==
             IF hits = {} THEN i
             ELSE i + 1 + Len(ContractionSuffixes[CHOOSE k \in hits : \A h \in hits : k <= h])
       IN firstOf({k \in 1..Len(ContractionSuffixes) :
                     hasCaseInsensitiveSuffixAt(s, i + 1, ContractionSuffixes[k])})

\* Rule 2.
ruleLettersWithContraction(s, i) ==
  LET after(end) == IF end > i THEN matchContraction(s, end) ELSE i
  IN after(consumeLetterRun(s, i))

\* Rule 1.
ruleLettersWithPrefixAndContraction(s, i) ==
  LET after(j, end) == IF end > j THEN matchContraction(s, end) ELSE i
      prefixed(d) ==
        IF ~(~isSpace(d.r) /\ ~isL(d.r) /\ ~isN(d.r))
          THEN ruleLettersWithContraction(s, i)
          ELSE after(i + d.size, consumeLetterRun(s, i + d.size))
  IN prefixed(IF IsASCIIByte(At(s, i))
                THEN [r |-> At(s, i), size |-> 1]
                ELSE utf8DecodeRuneInString(s, i))

\* Rule 3: the digit loop; returns the index reached.
RECURSIVE numbersLoop(_, _, _)
numbersLoop(s, j, count) ==
  IF j >= Len(s) THEN j
  ELSE LET b == At(s, j) IN
       IF IsASCIIByte(b)
         THEN IF ~isASCIIDigit(b) \/ count >= 3 THEN j
              ELSE numbersLoop(s, j + 1, count + 1)
         ELSE LET d == utf8DecodeRuneInString(s, j) IN
              IF ~isN(d.r) \/ count >= 3 THEN j
              ELSE numbersLoop(s, j + d.size, count + 1)

ruleNumbers(s, i) == numbersLoop(s, i, 0)

\* Rule 4: the run of punctuation/symbol code points from j.
RECURSIVE punctLoop(_, _)
punctLoop(s, j) ==
  IF j >= Len(s) THEN j
  ELSE LET b == At(s, j) IN
       IF IsASCIIByte(b)
         THEN IF isASCIISpace(b) \/ isASCIILetter(b) \/ isASCIIDigit(b) THEN j
              ELSE punctLoop(s, j + 1)
         ELSE LET d == utf8DecodeRuneInString(s, j) IN
              IF isSpace(d.r) \/ isL(d.r) \/ isN(d.r) THEN j
              ELSE punctLoop(s, j + d.size)

rulePunctRun(s, i) ==
  LET trailer(j0, j1) ==
        IF j1 = j0 THEN i
        ELSE IF j1 < Len(s)
               THEN IF IsASCIIByte(At(s, j1))
                      THEN (IF At(s, j1) \in {"\r", "\n", "/"} THEN j1 + 1 ELSE j1)
                      ELSE LET d == utf8DecodeRuneInString(s, j1) IN
                           (IF d.r \in {"\r", "\n", "/"} THEN j1 + d.size ELSE j1)
               ELSE j1
      run(j0) == trailer(j0, punctLoop(s, j0))
  IN run(IF i < Len(s)
           THEN IF IsASCIIByte(At(s, i))
                  THEN (IF isASCIISpace(At(s, i)) THEN i + 1 ELSE i)
                  ELSE LET d == utf8DecodeRuneInString(s, i) IN
                       (IF isSpace(d.r) THEN i + d.size ELSE i)
           ELSE i)

\* Rule 5 helper: whitespace other than CR/LF.
RECURSIVE spacesNoNewlineLoop(_, _)
spacesNoNewlineLoop(s, j) ==
  IF j >= Len(s) THEN j
  ELSE LET b == At(s, j) IN
       IF IsASCIIByte(b)
         THEN IF ~isASCIISpace(b) \/ b = "\r" \/ b = "\n" THEN j
              ELSE spacesNoNewlineLoop(s, j + 1)
         ELSE LET d == utf8DecodeRuneInString(s, j) IN
              IF ~isSpace(d.r) \/ d.r = "\r" \/ d.r = "\n" THEN j
              ELSE spacesNoNewlineLoop(s, j + d.size)

\* Rule 5 helper: CR/LF run.
RECURSIVE crlfLoop(_, _)
crlfLoop(s, j) ==
  IF j >= Len(s) THEN j
  ELSE LET b == At(s, j) IN
       IF IsASCIIByte(b)
         THEN IF b # "\r" /\ b # "\n" THEN j ELSE crlfLoop(s, j + 1)
         ELSE LET d == utf8DecodeRuneInString(s, j) IN
              IF d.r # "\r" /\ d.r # "\n" THEN j ELSE crlfLoop(s, j + d.size)

ruleNewlines(s, i) ==
  LET more(j0, j1) == IF j1 = j0 THEN i ELSE crlfLoop(s, j1)
      newlines(j0) == more(j0, crlfLoop(s, j0))
  IN newlines(spacesNoNewlineLoop(s, i))

\* Rule 7.
RECURSIVE whitespaceLoop(_, _)
whitespaceLoop(s, j) ==
  IF j >= Len(s) THEN j
  ELSE LET b == At(s, j) IN
       IF IsASCIIByte(b)
         THEN IF ~isASCIISpace(b) THEN j ELSE whitespaceLoop(s, j + 1)
         ELSE LET d == utf8DecodeRuneInString(s, j) IN
              IF ~isSpace(d.r) THEN j ELSE whitespaceLoop(s, j + d.size)

ruleWhitespace(s, i) == whitespaceLoop(s, i)

\* A segmenter that takes the answer of rule 1 without testing that it advanced.
SegNext_UntestedRule(s, i) ==
  IF i >= Len(s) THEN i
  ELSE IF allWSFrom(s, i) THEN Len(s)
  ELSE ruleLettersWithPrefixAndContraction(s, i)

\* o200kSegmenter.Next: end index (exclusive) of the segment starting at i.
SegNext(s, i) ==
  IF i >= Len(s) THEN i
  ELSE IF allWSFrom(s, i) THEN Len(s)
  ELSE LET orElse(j, rest) == IF j > i THEN j ELSE rest IN
       orElse(ruleLettersWithPrefixAndContraction(s, i),
       orElse(ruleLettersWithContraction(s, i),
       orElse(ruleNumbers(s, i),
       orElse(rulePunctRun(s, i),
       orElse(ruleNewlines(s, i),
       orElse(ruleWhitespace(s, i), i + 1))))))

\* The bytes of the model in increasing byte value (used for the single
\* byte tokens of the vocabulary and by sort.Strings).
ByteOrder ==
  <<"\t", "\n", VT, "\f", "\r", " ", "!", "#", "'", "(", ")", "*", ",", "-", ".", "/",
    "0","1","2","3","4","5","6","7","8","9", ":", ";", "<", "=", ">", "?",
    "A","B","C","D","E","F","G","H","I","J","K","L","M",
    "N","O","P","Q","R","S","T","U","V","W","X","Y","Z", "_",
    "a","b","c","d","e","f","g","h","i","j","k","l","m",
    "n","o","p","q","r","s","t","u","v","w","x","y","z",
    "{", "|", "}", "xA0", "xA9", "xC2", "xC3">>

ByteCode(b) == CHOOSE k \in 1..Len(ByteOrder) : ByteOrder[k] = b

(***************************************************************************)
(* Special token table and vocabulary                                      *)
(***************************************************************************)

TokStartOfText == 199998
TokEndOfText   == 199999
TokReturn      == 200002
TokConstrain   == 200003
TokChannel     == 200005
TokStart       == 200006
TokEnd         == 200007
TokMessage     == 200008
TokCall        == 200012

LitStartOfText == <<"<","|","s","t","a","r","t","o","f","t","e","x","t","|",">">>
LitEndOfText   == <<"<","|","e","n","d","o","f","t","e","x","t","|",">">>
LitReturn      == <<"<","|","r","e","t","u","r","n","|",">">>
LitConstrain   == <<"<","|","c","o","n","s","t","r","a","i","n","|",">">>
LitChannel     == <<"<","|","c","h","a","n","n","e","l","|",">">>
LitStart       == <<"<","|","s","t","a","r","t","|",">">>
LitEnd         == <<"<","|","e","n","d","|",">">>
LitMessage     == <<"<","|","m","e","s","s","a","g","e","|",">">>
LitCall        == <<"<","|","c","a","l","l","|",">">>

\* buildHarmonySpecials: literal -> id (the named specials; the reserved
\* range <|reserved_N|> is not used by any render or parse path modelled).
HarmonySpecials ==
  { [lit |-> LitStartOfText, id |-> TokStartOfText],
    [lit |-> LitEndOfText,   id |-> TokEndOfText],
    [lit |-> LitReturn,      id |-> TokReturn],
    [lit |-> LitConstrain,   id |-> TokConstrain],
    [lit |-> LitChannel,     id |-> TokChannel],
    [lit |-> LitStart,       id |-> TokStart],
    [lit |-> LitEnd,         id |-> TokEnd],
    [lit |-> LitMessage,     id |-> TokMessage],
    [lit |-> LitCall,        id |-> TokCall] }

SpecialIds == {sp.id : sp \in HarmonySpecials}

\* The merge table handed to newCoreBPE (loader.go reads it from the
\* o200k_base file): Vocab[k] is the byte sequence of rank k-1.  Every byte
\* used by the model is a token of its own, as in o200k_base; Merges is an
\* excerpt of the multi-byte entries.
Merges ==
  << <<"e","n">>,
     <<"e","r">>,
     <<"u","s">>,
     <<"t","o">>,
     <<"h","i">>,
     <<"o","k">>,
     <<"g","o">>,
     <<"<","|">>,
     <<"|",">">>,
     <<"/","/">>,
     <<":","/","/">>,
     <<"a","l","l">>,
     <<"a","n","y">>,
     <<"t","h","e">>,
     <<"t","y","p","e">>,
     <<"m","u","s","t">>,
     <<"u","s","e","r">>,
     <<"t","o","o","l">>,
     <<"f","i","n","a","l">>,
     <<"T","o","o","l","s">>,
     <<"t","o","o","l","s">>,
     <<"V","a","l","i","d">>,
     <<"C","a","l","l","s">>,
     <<"t","h","e","s","e">>,
     <<"s","y","s","t","e","m">>,
     <<"c","u","t","o","f","f">>,
     <<"m","e","d","i","u","m">>,
     <<"c","h","a","n","n","e","l">>,
     <<"a","n","a","l","y","s","i","s">>,
     <<"c","h","a","n","n","e","l","s">>,
     <<"a","s","s","i","s","t","a","n","t">>,
     <<"d","e","v","e","l","o","p","e","r">>,
     <<"f","u","n","c","t","i","o","n","s">>,
     <<"n","a","m","e","s","p","a","c","e">>,
     <<"K","n","o","w","l","e","d","g","e">>,
     <<"R","e","a","s","o","n","i","n","g">>,
     <<"c","o","m","m","e","n","t","a","r","y">> >>

Vocab == [k \in 1..Len(ByteOrder) |-> <<ByteOrder[k]>>] \o Merges

\* ^uint32(0), the "no merge" sentinel; only its being larger than every
\* rank matters, so it is the largest integer TLC represents.
NoRank == 2147483647

\* r, ok := b.enc[piece]; a missing key reads as the zero value 0.
EncLookup(piece) ==
  LET find(table) ==
        IF \E k \in 1..Len(table) : table[k] = piece
          THEN [ok |-> TRUE, rank |-> (CHOOSE k \in 1..Len(table) : table[k] = piece) - 1]
          ELSE [ok |-> FALSE, rank |-> 0]
  IN find(Vocab)

\* if r, ok := b.enc[piece]; ok { return r }; return ^uint32(0)
RankOrNone(piece) ==
  LET pick(e) == IF e.ok THEN e.rank ELSE NoRank IN pick(EncLookup(piece))

(***************************************************************************)
(* tokenizer/bpe.go                                                        *)
(***************************************************************************)

\* getRank uses 0-based i; parts is 1-based here.
getRank(piece, parts, i) ==
  IF i + 3 < Len(parts)
    THEN RankOrNone(Slice(piece, parts[i + 1].start, parts[i + 4].start))
    ELSE NoRank

\* The scan for the lowest rank over parts[0 .. len-2] (strict <, so the
\* first index among equals wins); idx = -1 when every rank is the sentinel.
minRankOf(parts) ==
  LET cand == {j \in 0..(Len(parts) - 2) : parts[j + 1].rank < NoRank} IN
  IF cand = {} THEN [rank |-> NoRank, idx |-> -1]
  ELSE LET j == CHOOSE a \in cand :
                  \A c \in cand : parts[a + 1].rank < parts[c + 1].rank
                                  \/ (parts[a + 1].rank = parts[c + 1].rank /\ a <= c)
       IN [rank |-> parts[j + 1].rank, idx |-> j]

RemoveAt(seq, k) == SubSeq(seq, 1, k - 1) \o SubSeq(seq, k + 1, Len(seq))

RECURSIVE mergeLoop(_, _)
mergeLoop(piece, parts) ==
  LET merge(i, p1) ==
        mergeLoop(piece, RemoveAt([p1 EXCEPT ![i + 1].rank = getRank(piece, p1, i)], i + 2))
      step(mr) ==
        IF mr.rank = NoRank THEN parts
        ELSE merge(mr.idx,
                   IF mr.idx > 0
                     THEN [parts EXCEPT ![mr.idx].rank = getRank(piece, parts, mr.idx - 1)]
                     ELSE parts)
  IN step(minRankOf(parts))

\* The first loop of bytePairMerge: one part per adjacent byte pair.
RECURSIVE pairParts(_, _)
pairParts(piece, i) ==
  IF i >= Len(piece) - 1 THEN <<>>
  ELSE <<[start |-> i,
          rank  |-> RankOrNone(Slice(piece, i, i + 2))]>> \o pairParts(piece, i + 1)

bytePairMerge(piece) ==
  mergeLoop(piece,
            pairParts(piece, 0)
              \o <<[start |-> Len(piece) - 1, rank |-> NoRank],
                   [start |-> Len(piece), rank |-> NoRank]>>)

\* A token loop that stops one part early.
RECURSIVE partTokens_StopsEarly(_, _, _)
partTokens_StopsEarly(piece, parts, w) ==
  IF w + 2 >= Len(parts) THEN <<>>
  ELSE <<EncLookup(Slice(piece, parts[w + 1].start, parts[w + 2].start)).rank>>
         \o partTokens_StopsEarly(piece, parts, w + 1)

\* The "for w := 0; w+1 < len(parts); w++" loop of bytePairEncode.
RECURSIVE partTokens(_, _, _)
partTokens(piece, parts, w) ==
  IF w + 1 >= Len(parts) THEN <<>>
  ELSE <<EncLookup(Slice(piece, parts[w + 1].start, parts[w + 2].start)).rank>>
         \o partTokens(piece, parts, w + 1)

bytePairEncode(piece) ==
  IF Len(piece) = 1 THEN <<EncLookup(piece).rank>>
  ELSE partTokens(piece, bytePairMerge(piece), 0)

\* matchSpecialAt: the longest allowed special literal that is a prefix of
\* s[i:]; n = 0 when none matches.
matchSpecialAt(s, i, allowed) ==
  LET match(best) == [tok |-> best.id, n |-> Len(best.lit)]
      longest(hits) ==
        IF hits = {} THEN [tok |-> 0, n |-> 0]
        ELSE match(CHOOSE sp \in hits : \A o \in hits : Len(sp.lit) >= Len(o.lit))
  IN longest({sp \in HarmonySpecials :
                /\ sp.lit \in allowed
                /\ Len(sp.lit) <= Len(s) - i
                /\ Slice(s, i, i + Len(sp.lit)) = sp.lit})

\* One iteration of the loop of encodeInto at position i: the tokens it
\* appends and the position it moves to.
encodeStep(text, allowed, i) ==
  LET encoded(piece, e) == IF e.ok THEN <<e.rank>> ELSE bytePairEncode(piece)
      segment(end) ==
        [next |-> end,
         toks |-> encoded(Slice(text, i, end), EncLookup(Slice(text, i, end)))]
      advance(e0) == segment(IF e0 <= i THEN i + 1 ELSE e0)
      special(m) ==
        IF m.n > 0 THEN [next |-> i + m.n, toks |-> <<m.tok>>]
        ELSE advance(SegNext(text, i))
  IN special(IF allowed # {} THEN matchSpecialAt(text, i, allowed)
             ELSE [tok |-> 0, n |-> 0])

\* The loop of encodeInto run for up to n iterations from the state st (the
\* tokens appended so far and the position reached).
RECURSIVE encodeSteps(_, _, _, _)
encodeSteps(text, allowed, st, n) ==
  IF n = 0 \/ st.next >= Len(text) THEN st
  ELSE LET appended(e) == [next |-> e.next, toks |-> st.toks \o e.toks]
       IN encodeSteps(text, allowed, appended(encodeStep(text, allowed, st.next)), n - 1)

\* encodeInto: the tokens its loop appends from position i on, taken eight
\* iterations at a time.
RECURSIVE encodeLoop(_, _, _)
encodeLoop(text, allowed, i) ==
  IF i >= Len(text) THEN <<>>
  ELSE LET rest(st) == st.toks \o encodeLoop(text, allowed, st.next)
       IN rest(encodeSteps(text, allowed, [next |-> i, toks |-> <<>>], 8))

encodeInto(text, allowed, out) == out \o encodeLoop(text, allowed, 0)

\* An ordinary path that matches every special-token literal.
EncodeIntoOrdinary_MatchesSpecials(text, out) ==
  encodeInto(text, {sp.lit : sp \in HarmonySpecials}, out)

\* EncodeIntoOrdinary: no special literal is allowed.
EncodeIntoOrdinary(text, out) == encodeInto(text, {}, out)

EncodeOrdinary(text) == encodeInto(text, {}, <<>>)

EncodeWithSpecialTokens(text) ==
  encodeInto(text, {sp.lit : sp \in HarmonySpecials}, <<>>)

\* heapStore.AppendInto succeeds for an id of the rank table.
InRankTable(t) == t >= 0 /\ t < Len(Vocab)

IsSpecialToken(t) == t \in SpecialIds

SpecialLit(t) == (CHOOSE sp \in HarmonySpecials : sp.id = t).lit

\* DecodeBytesInto: dst is left untouched when any id is unknown.
RECURSIVE decodeLoop(_, _, _)
decodeLoop(tokens, k, buf) ==
  IF k > Len(tokens) THEN [ok |-> TRUE, bytes |-> buf]
  ELSE IF InRankTable(tokens[k])
         THEN decodeLoop(tokens, k + 1, buf \o Vocab[tokens[k] + 1])
  ELSE IF IsSpecialToken(tokens[k])
         THEN decodeLoop(tokens, k + 1, buf \o SpecialLit(tokens[k]))
  ELSE [ok |-> FALSE, bytes |-> <<>>]

DecodeBytesInto(dst, tokens) ==
  LET result(r) == IF r.ok THEN r ELSE [ok |-> FALSE, bytes |-> dst]
  IN result(decodeLoop(tokens, 1, dst))

DecodeBytes(tokens) ==
  LET result(r) == IF r.ok THEN r ELSE [ok |-> FALSE, bytes |-> <<>>]
  IN result(DecodeBytesInto(<<>>, tokens))

\* coreBPE.DecodeUTF8: string(bs) of the decoded bytes, without validation.
DecodeUTF8(tokens) == DecodeBytes(tokens)

(***************************************************************************)
(* Go strings package, on byte sequences                                   *)
(***************************************************************************)

HasPrefix(s, p) == Len(p) <= Len(s) /\ SubSeq(s, 1, Len(p)) = p

\* strings.Index: 0-based index of the first occurrence, -1 when absent.
Index(s, sub) ==
  LET hits == {i \in 0..(Len(s) - Len(sub)) : Slice(s, i, i + Len(sub)) = sub} IN
  IF hits = {} THEN -1 ELSE CHOOSE i \in hits : \A h \in hits : i <= h

IndexByte(s, b) == Index(s, <<b>>)

Contains(s, sub) == Index(s, sub) # -1

TrimPrefix(s, p) == IF HasPrefix(s, p) THEN SliceFrom(s, Len(p)) ELSE s

\* utf8.DecodeLastRuneInString, for the runes of the model.
utf8DecodeLastRuneInString(s) ==
  LET n == Len(s) IN
  IF IsASCIIByte(s[n]) THEN [r |-> s[n], size |-> 1]
  ELSE IF n >= 2 /\ s[n - 1] = "xC3" /\ s[n] = "xA9" THEN [r |-> "U+00E9", size |-> 2]
  ELSE IF n >= 2 /\ s[n - 1] = "xC2" /\ s[n] = "xA0" THEN [r |-> "U+00A0", size |-> 2]
  ELSE [r |-> RuneError, size |-> 1]

RECURSIVE TrimLeftSpace(_)
TrimLeftSpace(s) ==
  IF s = <<>> THEN s
  ELSE LET d == utf8DecodeRuneInString(s, 0) IN
       IF isSpace(d.r) THEN TrimLeftSpace(SliceFrom(s, d.size)) ELSE s

RECURSIVE TrimRightSpace(_)
TrimRightSpace(s) ==
  IF s = <<>> THEN s
  ELSE LET d == utf8DecodeLastRuneInString(s) IN
       IF isSpace(d.r) THEN TrimRightSpace(Slice(s, 0, Len(s) - d.size)) ELSE s

\* strings.TrimSpace
TrimSpace(s) == TrimRightSpace(TrimLeftSpace(s))

\* strings.TrimRight(s, "\n")
RECURSIVE TrimRightNewlines(_)
TrimRightNewlines(s) ==
  IF s # <<>> /\ s[Len(s)] = "\n" THEN TrimRightNewlines(Slice(s, 0, Len(s) - 1)) ELSE s

\* strings.ReplaceAll for a non-empty old.
RECURSIVE ReplaceAll(_, _, _)
ReplaceAll(s, old, new) ==
  LET i == Index(s, old) IN
  IF i = -1 THEN s
  ELSE Slice(s, 0, i) \o new \o ReplaceAll(SliceFrom(s, i + Len(old)), old, new)

\* strings.Join
RECURSIVE Join(_, _)
Join(elems, sep) ==
  IF Len(elems) = 0 THEN <<>>
  ELSE IF Len(elems) = 1 THEN elems[1]
  ELSE elems[1] \o sep \o Join(Tail(elems), sep)

\* strings.ToLower on ASCII letters.
RECURSIVE ToLower(_)
ToLower(s) == IF s = <<>> THEN <<>> ELSE <<OrBit20(s[1])>> \o ToLower(Tail(s))

\* a < b for Go strings (bytewise lexicographic).
RECURSIVE StrLess(_, _)
StrLess(a, b) ==
  IF b = <<>> THEN FALSE
  ELSE IF a = <<>> THEN TRUE
  ELSE IF a[1] = b[1] THEN StrLess(Tail(a), Tail(b))
  ELSE ByteCode(a[1]) < ByteCode(b[1])

\* sort.Strings of a set of distinct strings.
RECURSIVE SortStrings(_)
SortStrings(S) ==
  IF S = {} THEN <<>>
  ELSE LET m == CHOOSE x \in S : \A y \in S : x = y \/ StrLess(x, y)
       IN <<m>> \o SortStrings(S \ {m})


(***************************************************************************)
(* Data model (Role, Author, Content, Message, Conversation)               *)
(*                                                                         *)
(* A Go string is a byte sequence; a nil pointer is <<>> and a pointer to  *)
(* v is <<v>>; a map is a function (the empty map is <<>>).                *)
(***************************************************************************)

RoleUser      == <<"u","s","e","r">>
RoleAssistant == <<"a","s","s","i","s","t","a","n","t">>
RoleSystem    == <<"s","y","s","t","e","m">>
RoleDeveloper == <<"d","e","v","e","l","o","p","e","r">>
RoleTool      == <<"t","o","o","l">>

Roles == {RoleUser, RoleAssistant, RoleSystem, RoleDeveloper, RoleTool}

ContentText      == "text"
ContentSystem    == "system_content"
ContentDeveloper == "developer_content"

ChFinal    == <<"f","i","n","a","l">>
ChAnalysis == <<"a","n","a","l","y","s","i","s">>
RcptAll    == <<"a","l","l">>

NoErr == "nil"

TextItem(t) == [type |-> ContentText, text |-> t, system |-> <<>>, developer |-> <<>>]

SystemItem(p) == [type |-> ContentSystem, text |-> <<>>, system |-> p, developer |-> <<>>]

DeveloperItem(p) == [type |-> ContentDeveloper, text |-> <<>>, system |-> <<>>, developer |-> p]

Msg(role, name, rcpt, ch, ct, content) ==
  [role |-> role, name |-> name, recipient |-> rcpt, channel |-> ch,
   contentType |-> ct, content |-> content]

(***************************************************************************)
(* System / developer body builders                                        *)
(***************************************************************************)

\* writeCommentLines: one "// <line>\n" per "\n"-separated chunk (the last
\* chunk may be empty).
RECURSIVE writeCommentLines(_)
writeCommentLines(text) ==
  LET i == IndexByte(text, "\n") IN
  IF i < 0 THEN <<"/","/"," ">> \o text \o <<"\n">>
  ELSE <<"/","/"," ">> \o Slice(text, 0, i) \o <<"\n">> \o writeCommentLines(SliceFrom(text, i + 1))

\* The per-tool block of writeToolsSection.  Tool descriptions of the model
\* carry no parameter schema (len(tool.Parameters) = 0).
RECURSIVE writeToolBlocks(_, _)
writeToolBlocks(tools, k) ==
  IF k > Len(tools) THEN <<>>
  ELSE writeCommentLines(tools[k].description)
         \o <<"t","y","p","e"," ">> \o tools[k].name \o <<" ","="," ","(",")"," ","=",">"," ","a","n","y",";","\n","\n">>
         \o writeToolBlocks(tools, k + 1)

writeNamespace(ns) ==
  LET head == <<"#","#"," ">> \o ns.name \o <<"\n","\n">>
      desc == IF ns.description # <<>> /\ ns.description[1] # <<>>
                THEN IF Len(ns.tools) > 0
                       THEN writeCommentLines(ns.description[1])
                       ELSE ns.description[1] \o <<"\n","\n">>
                ELSE <<>>
      body == IF Len(ns.tools) > 0
                THEN <<"n","a","m","e","s","p","a","c","e"," ">> \o ns.name \o <<" ","{","\n","\n">>
                       \o writeToolBlocks(ns.tools, 1)
                       \o <<"}"," ","/","/"," ","n","a","m","e","s","p","a","c","e"," ">> \o ns.name
                ELSE <<>>
  IN TrimRightNewlines(head \o desc \o body)

RECURSIVE writeNamespaces(_, _, _)
writeNamespaces(tools, names, k) ==
  IF k > Len(names) THEN <<>>
  ELSE <<"\n","\n">> \o writeNamespace(tools[names[k]]) \o writeNamespaces(tools, names, k + 1)

\* writeToolsSection: the text appended to body.
writeToolsSection(tools) ==
  IF Cardinality(DOMAIN tools) = 0 THEN <<>>
  ELSE <<"#"," ","T","o","o","l","s">> \o writeNamespaces(tools, SortStrings(DOMAIN tools), 1)

\* addSection of renderSystemContent.
addSection(body, text) == IF Len(body) > 0 THEN body \o <<"\n","\n">> \o text ELSE text

DefaultChannelConfig ==
  [validChannels |-> << <<"a","n","a","l","y","s","i","s">>, <<"c","o","m","m","e","n","t","a","r","y">>, <<"f","i","n","a","l">> >>, channelRequired |-> TRUE]

systemBody(sys, opts) ==
  LET mid == IF sys.modelIdentity # <<>> /\ sys.modelIdentity[1] # <<>>
               THEN sys.modelIdentity[1]
               ELSE <<"Y","o","u"," ","a","r","e"," ","C","h","a","t","G","P","T",","," ","a"," ","l","a","r","g","e"," ","l","a","n","g","u","a","g","e"," ","m","o","d","e","l"," ","t","r","a","i","n","e","d"," ","b","y"," ","O","p","e","n","A","I",".">>
      kc  == IF sys.knowledgeCutoff # <<>> /\ sys.knowledgeCutoff[1] # <<>>
               THEN sys.knowledgeCutoff[1] ELSE <<"2","0","2","4","-","0","6">>
      s1  == mid \o <<"\n">> \o <<"K","n","o","w","l","e","d","g","e"," ","c","u","t","o","f","f",":"," ">> \o kc
               \o (IF sys.conversationStartDate # <<>> /\ sys.conversationStartDate[1] # <<>>
                     THEN <<"\n">> \o <<"C","u","r","r","e","n","t"," ","d","a","t","e",":"," ">> \o sys.conversationStartDate[1]
                     ELSE <<>>)
      eff == IF sys.reasoningEffort # <<>> THEN ToLower(sys.reasoningEffort[1]) ELSE <<"m","e","d","i","u","m">>
      b1  == addSection(<<>>, s1)
      b2  == addSection(b1, <<"R","e","a","s","o","n","i","n","g",":"," ">> \o eff)
      b3  == IF Cardinality(DOMAIN sys.tools) > 0
               THEN addSection(b2, writeToolsSection(sys.tools)) ELSE b2
      cc  == IF sys.channelConfig = <<>> THEN DefaultChannelConfig ELSE sys.channelConfig[1]
      s4  == <<"#"," ","V","a","l","i","d"," ","c","h","a","n","n","e","l","s",":"," ">> \o Join(cc.validChannels, <<","," ">>) \o <<".">>
               \o (IF cc.channelRequired
                     THEN <<" ","C","h","a","n","n","e","l"," ","m","u","s","t"," ","b","e"," ","i","n","c","l","u","d","e","d"," ","f","o","r"," ","e","v","e","r","y"," ","m","e","s","s","a","g","e",".">> ELSE <<>>)
               \o (IF opts.conversationHasFunctionTools
                     THEN <<"\n","C","a","l","l","s"," ","t","o"," ","t","h","e","s","e"," ","t","o","o","l","s"," ","m","u","s","t"," ","g","o"," ","t","o"," ","t","h","e"," ","c","o","m","m","e","n","t","a","r","y"," ","c","h","a","n","n","e","l",":"," ","'","f","u","n","c","t","i","o","n","s","'",".">>
                     ELSE <<>>)
  IN IF Len(cc.validChannels) > 0 THEN addSection(b3, s4) ELSE b3

developerBody(dev) ==
  LET b1 == IF dev.instructions # <<>> /\ dev.instructions[1] # <<>>
              THEN <<"#"," ","I","n","s","t","r","u","c","t","i","o","n","s","\n","\n">> \o dev.instructions[1] ELSE <<>>
  IN IF Cardinality(DOMAIN dev.tools) > 0
       THEN (IF Len(b1) > 0 THEN b1 \o <<"\n","\n">> ELSE b1) \o writeToolsSection(dev.tools)
       ELSE b1

(***************************************************************************)
(* encoding.go: per-message rendering                                      *)
(***************************************************************************)

\* A renderText that lets special-token literals in the text become their ids.
renderText_AllowsSpecials(text, out) ==
  encodeInto(text, {sp.lit : sp \in HarmonySpecials}, out)

renderText(text, out) == EncodeIntoOrdinary(text, out)

\* One append to the token slice: the id of a formatting token (encoding.go
\* appends e.idStart, e.idChannel, ... directly) or the text of one
\* renderText call.
formattingToken(id) == [fmt |-> TRUE, tok |-> id, text |-> <<>>]

textCall(text) == [fmt |-> FALSE, tok |-> 0, text |-> text]

\* The tokens that the appends of a render function add, from call k on.
RECURSIVE appendedBy(_, _)
appendedBy(calls, k) ==
  IF k > Len(calls) THEN <<>>
  ELSE (IF calls[k].fmt THEN <<calls[k].tok>> ELSE renderText(calls[k].text, <<>>))
         \o appendedBy(calls, k + 1)

\* The appends of a render function run in order on out.
runAppends(calls, k, out) == out \o appendedBy(calls, k)

\* renderSystemContent: one renderText of the body.
renderSystemContent(sys, opts) == textCall(systemBody(sys, opts))

\* renderDeveloperContent: one renderText of the body.
renderDeveloperContent(dev) == textCall(developerBody(dev))

\* renderContentType: its appends.
renderContentType(ct) ==
  IF HasPrefix(ct, LitConstrain)
    THEN <<textCall(<<" ">>), formattingToken(TokConstrain)>>
           \o (IF TrimPrefix(ct, LitConstrain) # <<>>
                 THEN <<textCall(TrimPrefix(ct, LitConstrain))>> ELSE <<>>)
    ELSE <<textCall(<<" ">> \o ct)>>

\* The content loop shared in shape by renderMessage and renderMessageInto:
\* the appends made up to the first item that cannot be rendered, and the
\* error of that item.
RECURSIVE renderContentItems(_, _, _, _)
renderContentItems(content, k, opts, calls) ==
  IF k > Len(content) THEN [calls |-> calls, err |-> NoErr]
  ELSE IF content[k].type = ContentText
         THEN renderContentItems(content, k + 1, opts,
                                 Append(calls, textCall(content[k].text)))
       ELSE IF content[k].type = ContentSystem
         THEN IF content[k].system = <<>>
                THEN [calls |-> calls, err |-> "nil SystemContent"]
                ELSE renderContentItems(content, k + 1, opts,
                       Append(calls, renderSystemContent(content[k].system[1], opts)))
       ELSE IF content[k].type = ContentDeveloper
         THEN IF content[k].developer = <<>>
                THEN [calls |-> calls, err |-> "nil DeveloperContent"]
                ELSE renderContentItems(content, k + 1, opts,
                       Append(calls, renderDeveloperContent(content[k].developer[1])))
       ELSE [calls |-> calls, err |-> "unknown content type"]

needsRecipientOf(msg) == msg.recipient # <<>> /\ msg.recipient # RcptAll

\* The terminator renderMessage appends after the content.
terminator(msg) ==
  IF msg.role = RoleAssistant /\ msg.recipient # <<>> /\ msg.recipient # RcptAll
    THEN TokCall ELSE TokEnd

\* A terminatorInto that leaves out the comparison with "all".
terminatorInto_IgnoresAll(msg) ==
  IF msg.role = RoleAssistant /\ msg.recipient # <<>> THEN TokCall ELSE TokEnd

\* The terminator renderMessageInto appends after the content.
terminatorInto(msg) ==
  IF msg.role = RoleAssistant /\ msg.recipient # <<>> /\ msg.recipient # RcptAll
    THEN TokCall ELSE TokEnd

\* The channel, the content type and <|message|>, as both render functions
\* append them after the header.
headerTail(msg) ==
  (IF msg.channel # <<>>
     THEN <<formattingToken(TokChannel), textCall(msg.channel)>> ELSE <<>>)
  \o (IF msg.contentType # <<>> THEN renderContentType(msg.contentType) ELSE <<>>)
  \o <<formattingToken(TokMessage)>>

\* renderMessage: a fresh token slice; every header piece is encoded by its
\* own renderText call.  An error returns no tokens.
renderMessage(msg, opts) ==
  IF msg.role = RoleTool /\ msg.name = <<>>
    THEN [toks |-> <<>>, err |-> "tool messages must have a name"]
  ELSE
  LET header ==
        IF msg.role = RoleTool
          THEN IF needsRecipientOf(msg)
                 THEN <<textCall(msg.name), textCall(<<" ","t","o","=">>),
                        textCall(msg.recipient)>>
                 ELSE <<textCall(msg.name)>>
          ELSE IF msg.name = <<>> /\ ~needsRecipientOf(msg)
                 THEN <<textCall(msg.role)>>
                 ELSE <<textCall(msg.role)>>
                        \o (IF msg.name # <<>>
                              THEN <<textCall(<<":">>), textCall(msg.name)>> ELSE <<>>)
                        \o (IF needsRecipientOf(msg)
                              THEN <<textCall(<<" ","t","o","=">>), textCall(msg.recipient)>>
                              ELSE <<>>)
      finish(c) ==
        IF c.err # NoErr THEN [toks |-> <<>>, err |-> c.err]
        ELSE [toks |-> Append(runAppends(<<formattingToken(TokStart)>> \o header
                                           \o headerTail(msg) \o c.calls, 1, <<>>),
                              terminator(msg)),
              err |-> NoErr]
  IN finish(renderContentItems(msg.content, 1, opts, <<>>))

\* renderMessageInto: appends to out; the header is concatenated to one
\* string and encoded by a single renderText call.  On an error out keeps
\* what was appended before the failure.
renderMessageInto(msg, opts, out) ==
  IF msg.role = RoleTool /\ msg.name = <<>>
    THEN [out |-> Append(out, TokStart), err |-> "tool messages must have a name"]
  ELSE
  LET header ==
        IF msg.role = RoleTool
          THEN IF needsRecipientOf(msg)
                 THEN msg.name \o <<" ","t","o","=">> \o msg.recipient
                 ELSE msg.name
          ELSE IF msg.name = <<>> /\ ~needsRecipientOf(msg)
                 THEN msg.role
                 ELSE msg.role
                        \o (IF msg.name # <<>> THEN <<":">> \o msg.name ELSE <<>>)
                        \o (IF needsRecipientOf(msg)
                              THEN <<" ","t","o","=">> \o msg.recipient ELSE <<>>)
      appended(c, o) ==
        IF c.err # NoErr THEN [out |-> o, err |-> c.err]
        ELSE [out |-> Append(o, terminatorInto(msg)), err |-> NoErr]
      finish(c) ==
        appended(c, runAppends(<<formattingToken(TokStart), textCall(header)>>
                                 \o headerTail(msg) \o c.calls, 1, out))
  IN finish(renderContentItems(msg.content, 1, opts, <<>>))

\* Render: a single message with default options.
Render(msg) == renderMessage(msg, [conversationHasFunctionTools |-> FALSE])


(***************************************************************************)
(* encoding.go: conversation pre-pass and path selection                   *)
(***************************************************************************)

\* *RenderConversationConfig: <<>> is nil.
autoDropOf(cfg) == IF cfg = <<>> THEN TRUE ELSE cfg[1].autoDropAnalysis

\* lastAssistantFinal after the pre-pass loop: the channel test of the last
\* assistant message, false when there is none.
lastAssistantFinalOf(msgs) ==
  LET as == {i \in 1..Len(msgs) : msgs[i].role = RoleAssistant} IN
  IF as = {} THEN FALSE
  ELSE msgs[CHOOSE i \in as : \A j \in as : j <= i].channel = ChFinal

\* firstFinal (0-based), -1 when no message has channel "final".
firstFinalOf(msgs) ==
  LET fs == {i \in 0..(Len(msgs) - 1) : msgs[i + 1].channel = ChFinal} IN
  IF fs = {} THEN -1 ELSE CHOOSE i \in fs : \A j \in fs : i <= j

NsFunctions == <<"f","u","n","c","t","i","o","n","s">>

hasFunctionToolsOf(msgs) ==
  \E i \in 1..Len(msgs) : \E k \in 1..Len(msgs[i].content) :
    LET c == msgs[i].content[k] IN
      /\ c.type = ContentDeveloper
      /\ c.developer # <<>>
      /\ NsFunctions \in DOMAIN c.developer[1].tools
      /\ Len(c.developer[1].tools[NsFunctions].tools) > 0

\* The renderIdx loop: the retained 0-based indices, in order.
RECURSIVE renderIdxLoop(_, _, _, _)
renderIdxLoop(msgs, i, shouldDrop, firstFinal) ==
  IF i >= Len(msgs) THEN <<>>
  ELSE IF shouldDrop /\ firstFinal >= 0 /\ i < firstFinal /\ msgs[i + 1].channel = ChAnalysis
         THEN renderIdxLoop(msgs, i + 1, shouldDrop, firstFinal)
         ELSE <<i>> \o renderIdxLoop(msgs, i + 1, shouldDrop, firstFinal)

renderIdxOf(msgs, cfg) ==
  renderIdxLoop(msgs, 0, autoDropOf(cfg) /\ lastAssistantFinalOf(msgs), firstFinalOf(msgs))

\* The loop over ns.Tools of estimateToolsMapSize, from index k.
RECURSIVE estimateToolsSize(_, _)
estimateToolsSize(tds, k) ==
  IF k > Len(tds) THEN 0
  ELSE Len(tds[k].name) + Len(tds[k].description) + Len(tds[k].parameters)
         + estimateToolsSize(tds, k + 1)

\* A sum over the map's entries; the order of a Go map range does not
\* change it.
RECURSIVE estimateNamespacesSize(_, _, _)
estimateNamespacesSize(tools, names, k) ==
  IF k > Len(names) THEN 0
  ELSE LET ns == tools[names[k]] IN
       Len(ns.name)
       + (IF ns.description # <<>> THEN Len(ns.description[1]) ELSE 0)
       + estimateToolsSize(ns.tools, 1)
       + estimateNamespacesSize(tools, names, k + 1)

estimateToolsMapSize(tools) ==
  estimateNamespacesSize(tools, SortStrings(DOMAIN tools), 1)

RECURSIVE validChannelsSize(_, _)
validChannelsSize(chs, k) ==
  IF k > Len(chs) THEN 0 ELSE Len(chs[k]) + validChannelsSize(chs, k + 1)

estimateChannelConfigSize(cc) ==
  validChannelsSize(cc.validChannels, 1) + (IF cc.channelRequired THEN 1 ELSE 0)

\* len(*p) for a non-nil *string, 0 for nil.
OptLen(p) == IF p # <<>> THEN Len(p[1]) ELSE 0

estimateSystemContentSize(sys) ==
  OptLen(sys.modelIdentity) + OptLen(sys.reasoningEffort)
  + OptLen(sys.conversationStartDate) + OptLen(sys.knowledgeCutoff)
  + (IF sys.channelConfig # <<>> THEN estimateChannelConfigSize(sys.channelConfig[1]) ELSE 0)
  + estimateToolsMapSize(sys.tools)

estimateDeveloperContentSize(dev) ==
  OptLen(dev.instructions) + estimateToolsMapSize(dev.tools)

\* The content loop of estimateMessageSize, from item k.
RECURSIVE estimateContentSize(_, _)
estimateContentSize(content, k) ==
  IF k > Len(content) THEN 0
  ELSE LET c == content[k] IN
       (IF c.type = ContentText THEN Len(c.text)
        ELSE IF c.type = ContentSystem
          THEN (IF c.system # <<>> THEN estimateSystemContentSize(c.system[1]) ELSE 0)
        ELSE IF c.type = ContentDeveloper
          THEN (IF c.developer # <<>> THEN estimateDeveloperContentSize(c.developer[1]) ELSE 0)
        ELSE 0)
       + estimateContentSize(content, k + 1)

estimateMessageSize(msg) ==
  Len(msg.name) + Len(msg.channel) + Len(msg.contentType)
  + (IF needsRecipientOf(msg) THEN Len(msg.recipient) ELSE 0)
  + estimateContentSize(msg.content, 1)

\* The byte threshold of the parallel path.  The source's value is 8 * 1024;
\* the model's messages are a few bytes long, so the threshold is a bound of
\* the model, low enough for conversations of MaxMsgs messages to fall on
\* either side of it.
parallelRenderMinBytes == 12

parallelRenderMinMessages == 2

\* The loop of shouldParallelRender from position k with running total.
RECURSIVE reachesMinBytes(_, _, _, _)
reachesMinBytes(msgs, indices, k, total) ==
  IF k > Len(indices) THEN FALSE
  ELSE LET t == total + estimateMessageSize(msgs[indices[k] + 1]) IN
       IF t >= parallelRenderMinBytes THEN TRUE
       ELSE reachesMinBytes(msgs, indices, k + 1, t)

\* parallelRenderEnabled: the HARMONY_RENDER_PARALLEL switch, read once.
parallelRenderEnabled(env) == env

shouldParallelRender(msgs, indices, env) ==
  /\ parallelRenderEnabled(env)
  /\ Len(indices) >= parallelRenderMinMessages
  /\ reachesMinBytes(msgs, indices, 1, 0)

(***************************************************************************)
(* Inputs of the model                                                     *)
(***************************************************************************)

\* Largest number of messages in a conversation.
MaxMsgs == 2

\* Largest GOMAXPROCS value.
MaxProcs == 2

EmptySystem ==
  [modelIdentity |-> <<>>, knowledgeCutoff |-> <<>>, conversationStartDate |-> <<>>,
   reasoningEffort |-> <<>>, tools |-> <<>>, channelConfig |-> <<>>]

SysShort ==
  [EmptySystem EXCEPT !.modelIdentity = <<<<"m">>>>, !.knowledgeCutoff = <<<<"1">>>>,
     !.channelConfig = <<[validChannels |-> <<ChFinal>>, channelRequired |-> FALSE]>>]

FnTool == [name |-> <<"f">>, description |-> <<"d">>, parameters |-> <<>>]

DevTools ==
  [instructions |-> <<>>,
   tools |-> (NsFunctions :> [name |-> NsFunctions, description |-> <<>>, tools |-> <<FnTool>>])]

MsgU  == Msg(RoleUser, <<"/","/">>, <<>>, <<>>, <<>>, <<TextItem(<<"h","i">>)>>)
MsgAA == Msg(RoleAssistant, <<>>, <<>>, ChAnalysis, <<>>, <<TextItem(<<"a">>)>>)
MsgAF == Msg(RoleAssistant, <<>>, <<>>, ChFinal, <<>>, <<TextItem(<<"o","k">>)>>)
MsgAC == Msg(RoleAssistant, <<>>, <<"f">>, ChFinal, <<>>, <<TextItem(<<"x">>)>>)
MsgTA == Msg(RoleTool, <<>>, <<>>, ChAnalysis, <<>>, <<TextItem(<<"t">>)>>)
MsgS  == Msg(RoleSystem, <<>>, <<>>, <<>>, <<>>, <<SystemItem(<<SysShort>>)>>)
MsgD  == Msg(RoleDeveloper, <<>>, <<>>, <<>>, <<>>, <<DeveloperItem(<<DevTools>>)>>)
MsgNS == Msg(RoleSystem, <<>>, <<>>, ChFinal, <<>>, <<SystemItem(<<>>)>>)

\* The messages conversations are built from.
ConvMsgs == {MsgU, MsgAA, MsgAF, MsgAC, MsgTA, MsgS, MsgD, MsgNS}

Convs == UNION {[1..n -> ConvMsgs] : n \in 0..MaxMsgs}

\* cfg *RenderConversationConfig
Cfgs == {<<>>, <<[autoDropAnalysis |-> TRUE]>>, <<[autoDropAnalysis |-> FALSE]>>}

\* The next argument of RenderConversationForCompletion.
NextRoles == {RoleAssistant, RoleUser}


(***************************************************************************)
(* header_helpers.go                                                       *)
(***************************************************************************)

normalizeHeader(s) ==
  LET constrain(s1) ==
        IF Contains(s1, LitConstrain)
          THEN TrimSpace(ReplaceAll(s1, LitConstrain, <<" ">> \o LitConstrain)) ELSE s1
  IN constrain(IF Contains(s, LitChannel)
                 THEN TrimSpace(ReplaceAll(s, LitChannel, <<" ">> \o LitChannel)) ELSE s)

\* The loops "for i, ch := range s { if ch == ' ' || ch == '<' ..." : the
\* byte index of the first ' ' or '<', or dflt when there is none.
IndexSpaceOrLt(s, dflt) ==
  LET hits == {i \in 0..(Len(s) - 1) : At(s, i) \in {" ", "<"}} IN
  IF hits = {} THEN dflt ELSE CHOOSE i \in hits : \A j \in hits : i <= j

\* splitLeadingToken returns <<roleToken, remainder>>.
splitLeadingToken(s) ==
  LET cut(stop) ==
        <<Slice(s, 0, stop), IF stop < Len(s) THEN TrimSpace(SliceFrom(s, stop)) ELSE <<>> >>
  IN cut(IndexSpaceOrLt(s, Len(s)))

nextValueToken(input) ==
  LET value(token) ==
        IF HasPrefix(token, <<"t","o","=">>) \/ HasPrefix(token, <<"<","|">>)
          THEN <<>> ELSE token
      first(in1) ==
        IF in1 = <<>> THEN <<>>
        ELSE value(Slice(in1, 0, IndexSpaceOrLt(in1, Len(in1))))
  IN first(TrimSpace(input))

\* detectRoleAndAuthor returns <<detected, name>>.
detectRoleAndAuthor(roleToken, remainder) ==
  LET is(r) == roleToken = r \/ HasPrefix(roleToken, r \o <<":">>)
      toolName(n1, value) == IF n1 = <<>> THEN value ELSE n1
      author(detected, value) ==
        <<detected,
          IF detected = RoleTool
            THEN toolName(IF HasPrefix(roleToken, <<"t","o","o","l",":">>)
                            THEN SliceFrom(roleToken, 5)
                          ELSE IF roleToken = RoleTool THEN value
                          ELSE IF roleToken # <<>> THEN roleToken
                          ELSE <<>>,
                          value)
            ELSE IF HasPrefix(roleToken, detected \o <<":">>)
                   THEN SliceFrom(roleToken, Len(detected) + 1)
                   ELSE <<>> >>
  IN author(IF is(RoleUser) THEN RoleUser
            ELSE IF is(RoleAssistant) THEN RoleAssistant
            ELSE IF is(RoleSystem) THEN RoleSystem
            ELSE IF is(RoleDeveloper) THEN RoleDeveloper
            ELSE RoleTool,
            nextValueToken(remainder))

\* An extractChannel that takes everything after the marker.
extractChannel_ToEnd(s) ==
  LET idx == Index(s, LitChannel) IN
  IF idx # -1 THEN SliceFrom(s, idx + Len(LitChannel)) ELSE <<>>

extractChannel(s) ==
  LET idx == Index(s, LitChannel) IN
  IF idx # -1
    THEN LET after == SliceFrom(s, idx + Len(LitChannel))
             end   == IndexByte(after, " ")
         IN IF end = -1 THEN after ELSE Slice(after, 0, end)
    ELSE <<>>

extractRecipient(s) ==
  LET idx == Index(s, <<" ","t","o","=">>) IN
  IF idx # -1
    THEN LET after == SliceFrom(s, idx + 4)
             end   == IndexSpaceOrLt(after, -1)
         IN IF end = -1 THEN after ELSE Slice(after, 0, end)
    ELSE <<>>

\* The role/name prefix loop of scrubContentType: the first of the four
\* names that prefixes ss is stripped, with a following ":alias".
scrubRolePrefix(ss) ==
  LET rs   == <<RoleAssistant, RoleUser, RoleSystem, RoleDeveloper>>
      hits == {k \in 1..4 : HasPrefix(ss, rs[k])}
  IN IF hits = {} THEN ss
     ELSE LET r  == rs[CHOOSE k \in hits : \A j \in hits : k <= j]
              s1 == SliceFrom(ss, Len(r))
          IN IF HasPrefix(s1, <<":">>)
               THEN LET s2 == SliceFrom(s1, 1)
                        sp == IndexByte(s2, " ")
                    IN IF sp >= 0 THEN SliceFrom(s2, sp) ELSE <<>>
               ELSE s1

scrubRecipient(ss) ==
  IF HasPrefix(ss, <<"t","o","=">>)
    THEN LET after == SliceFrom(ss, 3)
             sp    == IndexByte(after, " ")
         IN IF sp = -1 THEN <<>> ELSE TrimSpace(SliceFrom(after, sp))
  ELSE LET idx == Index(ss, <<" ","t","o","=">>) IN
       IF idx # -1
         THEN LET before == Slice(ss, 0, idx)
                  after  == SliceFrom(ss, idx + 4)
                  sp     == IndexByte(after, " ")
              IN IF sp = -1 THEN TrimSpace(before)
                 ELSE TrimSpace(before \o SliceFrom(after, sp))
         ELSE ss

RECURSIVE scrubChannels(_)
scrubChannels(ss) ==
  LET idx == Index(ss, LitChannel) IN
  IF idx = -1 THEN ss
  ELSE LET after == SliceFrom(ss, idx + Len(LitChannel))
           sp    == IndexByte(after, " ")
       IN IF sp = -1 THEN scrubChannels(TrimSpace(Slice(ss, 0, idx)))
          ELSE scrubChannels(TrimSpace(Slice(ss, 0, idx) \o SliceFrom(after, sp)))

scrubContentType(roleToken, remainder) ==
  TrimSpace(scrubChannels(scrubRecipient(scrubRolePrefix(remainder))))


(***************************************************************************)
(* StreamParser (render_system.go) and the batch parser (encoding.go)      *)
(***************************************************************************)

stExpectStart == 0
stHeader      == 1
stContent     == 2

\* A stop set without <|call|>.
stopAll_WithoutCall == {TokReturn, TokEnd}

stopAll == {TokReturn, TokCall, TokEnd}

ErrDecode == "invalid token for decoding"
ErrExpectStart == "unexpected token while expecting <|start|>"

\* A constructor that waits for <|start|> whether or not a role is given.
NewStreamParser_AlwaysExpectStart(role) ==
  [nextRole |-> role,
   state |-> stExpectStart,
   tokens |-> <<>>, messages |-> <<>>, headerToks |-> <<>>, contentToks |-> <<>>,
   lastDeltaBytes |-> <<>>, scratch |-> <<>>]

\* role *Role: <<>> is nil.
NewStreamParser(role) ==
  [nextRole |-> role,
   state |-> IF role # <<>> THEN stHeader ELSE stExpectStart,
   tokens |-> <<>>, messages |-> <<>>, headerToks |-> <<>>, contentToks |-> <<>>,
   lastDeltaBytes |-> <<>>, scratch |-> <<>>]

parseHeaderFromTokens(p, header) ==
  LET fields(s, roleToken, remainder, det) ==
        [hdr |-> [role |-> IF p.nextRole # <<>> THEN p.nextRole[1] ELSE det[1],
                  name |-> det[2],
                  channel |-> extractChannel(s),
                  recipient |-> extractRecipient(s),
                  contentType |-> scrubContentType(roleToken, remainder)],
         err |-> NoErr]
      split(s, parts) ==
        fields(s, parts[1], parts[2], detectRoleAndAuthor(parts[1], parts[2]))
      normalized(s) == split(s, splitLeadingToken(s))
      decoded(d) ==
        IF ~d.ok THEN [hdr |-> <<>>, err |-> ErrDecode]
        ELSE normalized(normalizeHeader(d.bytes))
  IN decoded(DecodeUTF8(header))

\* finalizeMessage returns the parser and the error.
finalizeMessage(p) ==
  IF Len(p.messages) = 0 THEN [p |-> p, err |-> NoErr]
  ELSE LET decoded(d) ==
             IF ~d.ok THEN [p |-> p, err |-> ErrDecode]
             ELSE [p |-> [p EXCEPT !.messages[Len(p.messages)].content =
                                      <<TextItem(d.bytes)>>,
                                   !.headerToks = <<>>, !.contentToks = <<>>],
                   err |-> NoErr]
       IN decoded(DecodeUTF8(p.contentToks))

\* Process returns the parser after the call and the error.
Process(p0, token) ==
  LET p == [p0 EXCEPT !.tokens = Append(@, token)] IN
  IF p.state = stExpectStart
    THEN IF token = TokStart
           THEN [p |-> [p EXCEPT !.headerToks = <<>>, !.state = stHeader], err |-> NoErr]
           ELSE [p |-> p, err |-> ErrExpectStart]
  ELSE IF p.state = stHeader
    THEN IF token = TokStart THEN [p |-> p, err |-> NoErr]
         ELSE IF token = TokMessage
           THEN LET parsed(h) ==
                      IF h.err # NoErr THEN [p |-> p, err |-> h.err]
                      ELSE [p |-> [p EXCEPT !.nextRole = <<>>, !.contentToks = <<>>,
                                            !.messages = Append(@,
                                               Msg(h.hdr.role, h.hdr.name, h.hdr.recipient,
                                                   h.hdr.channel, h.hdr.contentType, <<>>)),
                                            !.state = stContent],
                            err |-> NoErr]
                IN parsed(parseHeaderFromTokens(p, p.headerToks))
           ELSE [p |-> [p EXCEPT !.headerToks = Append(@, token)], err |-> NoErr]
  ELSE IF p.state = stContent
    THEN IF token \in stopAll
           THEN LET finalized(f) ==
                      IF f.err # NoErr THEN f
                      ELSE [p |-> [f.p EXCEPT !.state = stExpectStart], err |-> NoErr]
                IN finalized(finalizeMessage(p))
           ELSE LET p1 == [p EXCEPT !.contentToks = Append(@, token), !.scratch = <<>>]
                    decoded(d) ==
                      IF ~d.ok THEN [p |-> p1, err |-> ErrDecode]
                      ELSE [p |-> [p1 EXCEPT !.scratch = d.bytes,
                                             !.lastDeltaBytes = d.bytes],
                            err |-> NoErr]
                IN decoded(DecodeBytesInto(p1.scratch, <<token>>))
  ELSE [p |-> p, err |-> "invalid parser state"]

\* An end of stream that finalizes in every state.
ProcessEOS_AlwaysFinalizes(p) == finalizeMessage(p)

ProcessEOS(p) ==
  IF p.state = stContent THEN finalizeMessage(p) ELSE [p |-> p, err |-> NoErr]

Messages(p) == p.messages

Tokens(p) == p.tokens

\* The "for _, t := range tokens" loop of ParseMessagesFromCompletionTokens.
RECURSIVE parseLoop(_, _, _)
parseLoop(p, tokens, k) ==
  IF k > Len(tokens) THEN [p |-> p, err |-> NoErr]
  ELSE LET processed(r) == IF r.err # NoErr THEN r ELSE parseLoop(r.p, tokens, k + 1)
       IN processed(Process(p, tokens[k]))

\* A batch parse that returns after the loop, without ProcessEOS.
ParseMessages_WithoutEOS(tokens, role) ==
  LET looped(l) ==
        IF l.err # NoErr THEN [msgs |-> <<>>, err |-> l.err]
        ELSE [msgs |-> l.p.messages, err |-> NoErr]
  IN looped(parseLoop(NewStreamParser(role), tokens, 1))

\* ParseMessagesFromCompletionTokens: the messages and the error.
ParseMessagesFromCompletionTokens(tokens, role) ==
  LET flushed(e) ==
        IF e.err # NoErr THEN [msgs |-> <<>>, err |-> e.err]
        ELSE [msgs |-> e.p.messages, err |-> NoErr]
      looped(l) ==
        IF l.err # NoErr THEN [msgs |-> <<>>, err |-> l.err]
        ELSE flushed(ProcessEOS(l.p))
  IN looped(parseLoop(NewStreamParser(role), tokens, 1))


\* Largest number of tokens fed to one StreamParser.
MaxTokens == 4

\* Messages handed to Render: every combination of the header fields with
\* one text item, and messages whose content cannot be rendered.
RenderNames == {<<>>, <<"/","/">>, <<"b">>, RoleUser, LitMessage}
RenderRecipients == {<<>>, RcptAll, <<"f">>, LitCall}
RenderChannels == {<<>>, ChFinal, ChAnalysis}
RenderContentTypes == {<<>>, LitConstrain \o <<"j">>, <<"j">>}
RenderTexts == {<<>>, <<"h","i">>, LitEnd \o <<"u","s","e","r","s">>, <<"a", "xC3", "xA9", " ">>}

RenderMsgs ==
  {Msg(r, n, rc, ch, ct, <<TextItem(t)>>) :
     r \in Roles, n \in RenderNames, rc \in RenderRecipients, ch \in RenderChannels,
     ct \in RenderContentTypes, t \in RenderTexts}
  \cup {MsgS, MsgD,
        Msg(RoleSystem, <<>>, <<>>, <<>>, <<>>, <<SystemItem(<<>>)>>),
        Msg(RoleDeveloper, <<>>, <<>>, <<>>, <<>>, <<TextItem(<<"h","i">>), DeveloperItem(<<>>)>>),
        Msg(RoleUser, <<>>, <<>>, <<>>, <<>>,
            <<[type |-> "image", text |-> <<>>, system |-> <<>>, developer |-> <<>>]>>)}

\* The first id above the rank table; it is not a special id, so no store
\* decodes it.
InvalidToken == Len(Vocab)

\* Tokens fed to a StreamParser.
ParseTokens ==
  {TokStart, TokMessage, TokEnd, TokReturn, TokCall, TokChannel, EncLookup(ChFinal).rank,
   InvalidToken}

\* role *Role handed to NewStreamParser.
Hints == {<<>>, <<RoleAssistant>>, <<RoleTool>>}

Calls == {"RenderConversation", "Render", "Parse", "Tools", "Encode", "Decode"}

(***************************************************************************)
(* Inputs of Encoding.EncodeOrdinary, DecodeBytes and DecodeUTF8           *)
(***************************************************************************)

\* Longest text handed to EncodeOrdinary, in bytes.
MaxText == 3

\* Longest token sequence handed to DecodeBytes / DecodeUTF8.
MaxDecode == 2

\* The bytes texts are built from: letters that merge, a contraction, the
\* whitespace and number rules, and the two halves of U+00E9.
TextBytes == {"e", "n", "'", "s", " ", "\n", "1", "xC3", "xA9"}

RECURSIVE SeqsUpTo(_, _)
SeqsUpTo(S, n) ==
  IF n = 0 THEN {<<>>}
  ELSE SeqsUpTo(S, n - 1) \cup {Append(q, x) : q \in [1..(n - 1) -> S], x \in S}

EncodeTexts ==
  SeqsUpTo(TextBytes, MaxText)
    \cup {<<"t","h","e","s","e","'","L","L"," "," ","1","2","3","4","\r","\n","x">>,
          <<"(","a","l","l",")",".","\n"," ","u","s","e","r","s","xC3","xA9","xC2","xA0","!">>,
          LitEnd \o <<"o","k">>}

\* Tokens handed to the decoders: one ASCII byte, the two bytes of U+00E9
\* each as a token of its own, a special id and an unknown id.
DecodeTokens ==
  {EncLookup(<<"a">>).rank, EncLookup(<<"xC3">>).rank, EncLookup(<<"xA9">>).rank,
   TokEnd, InvalidToken}

DecodeInputs == SeqsUpTo(DecodeTokens, MaxDecode)

\* No decoder or encoder result yet.
NoOutput == [done |-> FALSE, ok |-> FALSE, bytes |-> <<>>]

(***************************************************************************)
(* ToolDescription.Parameters and its lazily parsed cache                  *)
(***************************************************************************)

\* Largest number of renders of one tool description that run concurrently.
MaxRenders == 2

\* A json.RawMessage, described by what the two readers of the model take
\* from it: its length, whether it is well-formed JSON, and the keys of its
\* "properties" object in document order.
NoParams  == [bytes |-> FALSE, valid |-> FALSE, properties |-> <<>>]
ObjParams == [bytes |-> TRUE, valid |-> TRUE, properties |-> <<"b", "a">>]
BadParams == [bytes |-> TRUE, valid |-> FALSE, properties |-> <<>>]

ToolParams == {NoParams, ObjParams, BadParams}

\* json.Unmarshal(t.Parameters, &v): a map, which keeps no key order.
jsonUnmarshal(raw) ==
  IF raw.valid
    THEN [value |-> <<[properties |-> {raw.properties[i] : i \in DOMAIN raw.properties}]>>,
          err |-> NoErr]
    ELSE [value |-> <<>>, err |-> "invalid character"]

\* orderedPropertyKeys: the keys of "properties" in document order.
orderedPropertyKeys(raw) ==
  IF ~raw.bytes THEN <<>>
  ELSE IF ~raw.valid THEN <<>>
  ELSE raw.properties

\* &toolParsedCache{}
NewToolParsedCache == [once |-> "new", value |-> <<>>, orderedKeys |-> <<>>, err |-> NoErr]

\* A render that has not called parsedParameters yet.
IdleRender ==
  [pc |-> "idle", once |-> 0, v |-> <<>>, value |-> <<>>, orderedKeys |-> <<>>, err |-> NoErr]

NoResult == [toks |-> <<>>, err |-> NoErr]

NoParsed == [msgs |-> <<>>, err |-> NoErr]

(***************************************************************************)
(* State                                                                   *)
(***************************************************************************)

VARIABLES
  call,        \* which entry point family this run exercises
  conv,        \* conv.Messages (for Render: the one message)
  cfg,         \* cfg *RenderConversationConfig
  pc,          \* position of the calling goroutine
  path,        \* the path RenderConversation took
  maxWorkers,  \* capacity of the channel sem
  renderIdx,   \* retained indices
  opts,        \* renderOptions
  slot,        \* iterations of the loop over renderIdx done so far
  results,     \* results[slot] of the parallel path
  firstErr,    \* firstErr of the parallel path
  failures,    \* the errors handed to errOnce.Do, in the order of the calls
  errOnce,     \* errOnce has run
  sem,         \* number of elements in the channel sem
  wg,          \* WaitGroup counter
  worker,      \* position of the goroutine of each slot
  rendered,    \* rendered[s]: what renderMessage returns to the goroutine of slot s
  out,         \* out of the sequential path
  rc,          \* what RenderConversation returned
  caller,      \* the entry point that returned res
  next,        \* next of RenderConversationForCompletion
  res,         \* what the entry point returned
  parsed,      \* what ParseMessagesFromCompletionTokens returned
  hint,        \* role hint of the parser
  p,           \* the StreamParser
  lastCall,    \* last method called on p
  lastErr,     \* error returned by the last call on p
  firstPErr,   \* first error any call on p returned
  eosBefore,   \* ProcessEOS was called before the last call on p
  codecIn,     \* the text handed to EncodeOrdinary, or the tokens handed to the decoders
  encoded,     \* what EncodeOrdinary returned
  bytesOut,    \* what DecodeBytes returned
  utf8Out,     \* what DecodeUTF8 returned
  toolParams,  \* tool.Parameters of the shared ToolDescription
  tparsed,     \* t.parsed: 0 is nil, c > 0 points to caches[c]
  caches,      \* the toolParsedCache objects allocated so far
  unmarshals,  \* calls of json.Unmarshal on t.Parameters
  render       \* render[g]: the goroutine g inside parsedParameters

renderVars ==
  <<path, maxWorkers, renderIdx, opts, slot, results, firstErr, failures, errOnce, sem,
    wg, worker, rendered, out, rc>>

inputVars == <<call, conv, cfg, hint, toolParams, codecIn>>

codecVars == <<encoded, bytesOut, utf8Out>>

toolVars == <<tparsed, caches, unmarshals, render>>

parserVars == <<p, lastCall, lastErr, firstPErr, eosBefore>>

vars ==
  <<inputVars, pc, renderVars, caller, next, res, parsed, parserVars, toolVars, codecVars>>

Init ==
  /\ call \in Calls
  /\ conv \in (IF call = "RenderConversation" THEN Convs
               ELSE IF call = "Render" THEN {<<m>> : m \in RenderMsgs}
               ELSE {<<>>})
  /\ cfg \in (IF call = "RenderConversation" THEN Cfgs ELSE {<<>>})
  /\ hint \in (IF call \in {"Parse", "Render"} THEN Hints ELSE {<<>>})
  /\ codecIn \in (IF call = "Encode" THEN EncodeTexts
                  ELSE IF call = "Decode" THEN DecodeInputs
                  ELSE {<<>>})
  /\ encoded = NoOutput
  /\ bytesOut = NoOutput
  /\ utf8Out = NoOutput
  /\ toolParams \in (IF call = "Tools" THEN ToolParams ELSE {NoParams})
  /\ tparsed = 0
  /\ caches = <<>>
  /\ unmarshals = 0
  /\ render = [g \in 1..MaxRenders |-> IdleRender]
  /\ pc = (IF call = "Parse" THEN "stream" ELSE IF call = "Tools" THEN "tools" ELSE "entry")
  /\ path = "none"
  /\ maxWorkers = 0
  /\ renderIdx = <<>>
  /\ opts = [conversationHasFunctionTools |-> FALSE]
  /\ slot = 0
  /\ results = <<>>
  /\ firstErr = NoErr
  /\ failures = <<>>
  /\ errOnce = FALSE
  /\ sem = 0
  /\ wg = 0
  /\ worker = <<>>
  /\ rendered = <<>>
  /\ out = <<>>
  /\ rc = NoResult
  /\ caller = "none"
  /\ next = <<>>
  /\ res = NoResult
  /\ parsed = NoParsed
  /\ p = NewStreamParser(hint)
  /\ lastCall = "NewStreamParser"
  /\ lastErr = NoErr
  /\ firstPErr = NoErr
  /\ eosBefore = FALSE


(***************************************************************************)
(* RenderConversation                                                      *)
(***************************************************************************)

\* renderMessage of the message of every slot from k on.
RECURSIVE renderSlots(_, _, _, _)
renderSlots(msgs, idx, o, k) ==
  IF k > Len(idx) THEN <<>>
  ELSE <<renderMessage(msgs[idx[k] + 1], o)>> \o renderSlots(msgs, idx, o, k + 1)

RECURSIVE Flatten(_)
Flatten(rs) == IF rs = <<>> THEN <<>> ELSE rs[1] \o Flatten(Tail(rs))

RECURSIVE NilSlices(_)
NilSlices(n) == IF n = 0 THEN <<>> ELSE <<<<>>>> \o NilSlices(n - 1)

RECURSIVE Idle(_)
Idle(n) == IF n = 0 THEN <<>> ELSE <<"idle">> \o Idle(n - 1)

\* maxWorkers := runtime.GOMAXPROCS(0); if maxWorkers < 1 { maxWorkers = 1 }
maxWorkersOf(procs) == IF procs < 1 THEN 1 ELSE procs

\* The pre-pass, the renderIdx loop and the choice of the path.  env is the
\* HARMONY_RENDER_PARALLEL switch and procs is runtime.GOMAXPROCS(0), both
\* read from the environment here.  renderMessage is a function of the
\* message and the options alone, so what each goroutine will get from it is
\* fixed once opts is: rendered holds these values, and the goroutine's step
\* WorkerRender acts on rendered[s].
RCEnter(env, procs) ==
  /\ call = "RenderConversation" /\ pc = "entry"
  /\ LET idx == renderIdxOf(conv, cfg) IN
       /\ renderIdx' = idx
       /\ opts' = [conversationHasFunctionTools |-> hasFunctionToolsOf(conv)]
       /\ IF Len(idx) = 0
            THEN /\ pc' = "returned"
                 /\ path' = "empty"
                 /\ rc' = [toks |-> <<>>, err |-> NoErr]
                 /\ UNCHANGED <<results, worker, rendered, maxWorkers>>
            ELSE IF shouldParallelRender(conv, idx, env)
              THEN /\ pc' = "parallel"
                   /\ path' = "parallel"
                   /\ maxWorkers' = maxWorkersOf(procs)
                   /\ results' = NilSlices(Len(idx))
                   /\ worker' = Idle(Len(idx))
                   /\ rendered' = renderSlots(conv, idx, opts', 1)
                   /\ UNCHANGED rc
              ELSE /\ pc' = "sequential"
                   /\ path' = "sequential"
                   /\ UNCHANGED <<rc, results, worker, rendered, maxWorkers>>
  /\ UNCHANGED <<inputVars, toolVars, codecVars, slot, firstErr, failures, errOnce, sem, wg,
                 out, caller, next, res, parsed, parserVars>>

\* A sequential loop that returns out together with the error.
SeqStep_ReturnsPartial ==
  /\ pc = "sequential" /\ slot < Len(renderIdx)
  /\ LET r == renderMessageInto(conv[renderIdx[slot + 1] + 1], opts, out) IN
       /\ out' = r.out
       /\ IF r.err # NoErr
            THEN /\ pc' = "returned"
                 /\ rc' = [toks |-> r.out, err |-> r.err]
                 /\ UNCHANGED slot
            ELSE /\ slot' = slot + 1
                 /\ UNCHANGED <<pc, rc>>
  /\ UNCHANGED <<inputVars, toolVars, codecVars, path, maxWorkers, renderIdx, opts, results,
                 firstErr, failures, errOnce, sem, wg, worker, rendered, caller, next, res,
                 parsed, parserVars>>

\* One iteration of the sequential loop.
SeqStep ==
  /\ pc = "sequential" /\ slot < Len(renderIdx)
  /\ LET r == renderMessageInto(conv[renderIdx[slot + 1] + 1], opts, out) IN
       /\ out' = r.out
       /\ IF r.err # NoErr
            THEN /\ pc' = "returned"
                 /\ rc' = [toks |-> <<>>, err |-> r.err]
                 /\ UNCHANGED slot
            ELSE /\ slot' = slot + 1
                 /\ UNCHANGED <<pc, rc>>
  /\ UNCHANGED <<inputVars, toolVars, codecVars, path, maxWorkers, renderIdx, opts, results,
                 firstErr, failures, errOnce, sem, wg, worker, rendered, caller, next, res,
                 parsed, parserVars>>

\* return out, nil after the sequential loop.
SeqReturn ==
  /\ pc = "sequential" /\ slot = Len(renderIdx)
  /\ pc' = "returned"
  /\ rc' = [toks |-> out, err |-> NoErr]
  /\ UNCHANGED <<inputVars, toolVars, codecVars, path, maxWorkers, renderIdx, opts, slot,
                 results, firstErr, failures, errOnce, sem, wg, worker, rendered, out,
                 caller, next, res, parsed, parserVars>>

\* A spawning loop whose send on sem never blocks.
ParSpawn_Unbounded ==
  /\ pc = "parallel" /\ slot < Len(renderIdx)
  /\ wg' = wg + 1
  /\ sem' = sem + 1
  /\ worker' = [worker EXCEPT ![slot + 1] = "running"]
  /\ slot' = slot + 1
  /\ UNCHANGED <<inputVars, toolVars, codecVars, pc, path, maxWorkers, renderIdx, opts,
                 results, firstErr, failures, errOnce, rendered, out, rc, caller, next, res,
                 parsed, parserVars>>

\* One iteration of the spawning loop: wg.Add(1), the send on sem (which
\* blocks while the channel is full) and the go statement.
ParSpawn ==
  /\ pc = "parallel" /\ slot < Len(renderIdx)
  /\ sem < maxWorkers
  /\ wg' = wg + 1
  /\ sem' = sem + 1
  /\ worker' = [worker EXCEPT ![slot + 1] = "running"]
  /\ slot' = slot + 1
  /\ UNCHANGED <<inputVars, toolVars, codecVars, pc, path, maxWorkers, renderIdx, opts,
                 results, firstErr, failures, errOnce, rendered, out, rc, caller, next, res,
                 parsed, parserVars>>

\* A goroutine that stores its error in firstErr without errOnce.
WorkerRender_LastErrorWins(s) ==
  /\ pc = "parallel" /\ worker[s] = "running"
  /\ LET r == rendered[s] IN
       IF r.err # NoErr
         THEN /\ firstErr' = r.err
              /\ failures' = Append(failures, r.err)
              /\ errOnce' = TRUE
              /\ UNCHANGED results
         ELSE /\ results' = [results EXCEPT ![s] = r.toks]
              /\ UNCHANGED <<firstErr, failures, errOnce>>
  /\ worker' = [worker EXCEPT ![s] = "rendered"]
  /\ UNCHANGED <<inputVars, toolVars, codecVars, pc, path, maxWorkers, renderIdx, opts,
                 slot, sem, wg, rendered, out, rc, caller, next, res, parsed, parserVars>>

\* The body of the goroutine of slot s (1-based).
WorkerRender(s) ==
  /\ pc = "parallel" /\ worker[s] = "running"
  /\ LET r == rendered[s] IN
       IF r.err # NoErr
         THEN /\ firstErr' = (IF errOnce THEN firstErr ELSE r.err)
              /\ failures' = Append(failures, r.err)
              /\ errOnce' = TRUE
              /\ UNCHANGED results
         ELSE /\ results' = [results EXCEPT ![s] = r.toks]
              /\ UNCHANGED <<firstErr, failures, errOnce>>
  /\ worker' = [worker EXCEPT ![s] = "rendered"]
  /\ UNCHANGED <<inputVars, toolVars, codecVars, pc, path, maxWorkers, renderIdx, opts,
                 slot, sem, wg, rendered, out, rc, caller, next, res, parsed, parserVars>>

\* A goroutine that ends without receiving from sem.
WorkerRelease_KeepsSlot(s) ==
  /\ pc = "parallel" /\ worker[s] = "rendered"
  /\ worker' = [worker EXCEPT ![s] = "released"]
  /\ UNCHANGED <<inputVars, toolVars, codecVars, pc, path, maxWorkers, renderIdx, opts,
                 slot, results, firstErr, failures, errOnce, sem, wg, rendered, out, rc,
                 caller, next, res, parsed, parserVars>>

\* defer func() { <-sem }()
WorkerRelease(s) ==
  /\ pc = "parallel" /\ worker[s] = "rendered"
  /\ sem' = sem - 1
  /\ worker' = [worker EXCEPT ![s] = "released"]
  /\ UNCHANGED <<inputVars, toolVars, codecVars, pc, path, maxWorkers, renderIdx, opts,
                 slot, results, firstErr, failures, errOnce, wg, rendered, out, rc, caller,
                 next, res, parsed, parserVars>>

\* defer wg.Done()
WorkerDone(s) ==
  /\ pc = "parallel" /\ worker[s] = "released"
  /\ wg' = wg - 1
  /\ worker' = [worker EXCEPT ![s] = "done"]
  /\ UNCHANGED <<inputVars, toolVars, codecVars, pc, path, maxWorkers, renderIdx, opts,
                 slot, results, firstErr, failures, errOnce, sem, rendered, out, rc, caller,
                 next, res, parsed, parserVars>>

\* wg.Wait() and the return of the parallel path.
ParReturn ==
  /\ pc = "parallel" /\ slot = Len(renderIdx) /\ wg = 0
  /\ pc' = "returned"
  /\ rc' = (IF firstErr # NoErr THEN [toks |-> <<>>, err |-> firstErr]
            ELSE [toks |-> Flatten(results), err |-> NoErr])
  /\ UNCHANGED <<inputVars, toolVars, codecVars, path, maxWorkers, renderIdx, opts, slot,
                 results, firstErr, failures, errOnce, sem, wg, worker, rendered, out,
                 caller, next, res, parsed, parserVars>>

(***************************************************************************)
(* The entry points built on RenderConversation                            *)
(***************************************************************************)

\* A completion render that leaves out the <|start|> of the next message.
ForCompletionResult_WithoutStart(r, nxt) ==
  IF r.err # NoErr THEN [toks |-> <<>>, err |-> r.err]
  ELSE [toks |-> renderText(nxt, r.toks), err |-> NoErr]

\* What RenderConversationForCompletion makes of RenderConversation's
\* return.
ForCompletionResult(r, nxt) ==
  IF r.err # NoErr THEN [toks |-> <<>>, err |-> r.err]
  ELSE [toks |-> renderText(nxt, Append(r.toks, TokStart)), err |-> NoErr]

\* What RenderConversationForTraining makes of RenderConversation's return.
ForTrainingResult(msgs, r) ==
  IF Len(msgs) = 0 THEN [toks |-> <<>>, err |-> NoErr]
  ELSE IF r.err # NoErr THEN [toks |-> <<>>, err |-> r.err]
  ELSE LET last == msgs[Len(msgs)] IN
       IF last.role = RoleAssistant /\ last.channel = ChFinal /\ Len(r.toks) # 0
         THEN [toks |-> [r.toks EXCEPT ![Len(r.toks)] = TokReturn], err |-> NoErr]
         ELSE r

\* RenderConversation itself was the entry point.
ReturnConversation ==
  /\ pc = "returned"
  /\ pc' = "done"
  /\ caller' = "RenderConversation"
  /\ res' = rc
  /\ UNCHANGED <<inputVars, toolVars, codecVars, renderVars, next, parsed, parserVars>>

ReturnForCompletion(nxt) ==
  /\ pc = "returned"
  /\ pc' = "done"
  /\ caller' = "RenderConversationForCompletion"
  /\ next' = nxt
  /\ res' = ForCompletionResult(rc, nxt)
  /\ UNCHANGED <<inputVars, toolVars, codecVars, renderVars, parsed, parserVars>>

ReturnForTraining ==
  /\ pc = "returned"
  /\ pc' = "done"
  /\ caller' = "RenderConversationForTraining"
  /\ res' = ForTrainingResult(conv, rc)
  /\ UNCHANGED <<inputVars, toolVars, codecVars, renderVars, next, parsed, parserVars>>

(***************************************************************************)
(* Render, and parsing what it returned                                    *)
(***************************************************************************)

RenderCall ==
  /\ call = "Render" /\ pc = "entry"
  /\ pc' = "done"
  /\ caller' = "Render"
  /\ res' = Render(conv[1])
  /\ UNCHANGED <<inputVars, toolVars, codecVars, renderVars, next, parsed, parserVars>>

ParseRendered ==
  /\ call = "Render" /\ pc = "done" /\ res.err = NoErr
  /\ pc' = "parsed"
  /\ parsed' = ParseMessagesFromCompletionTokens(res.toks, hint)
  /\ UNCHANGED <<inputVars, toolVars, codecVars, renderVars, caller, next, res, parserVars>>

(***************************************************************************)
(* The streaming parser, and the batch parser on the same tokens           *)
(***************************************************************************)

DoProcess(t) ==
  /\ call = "Parse" /\ pc = "stream" /\ Len(p.tokens) < MaxTokens
  /\ LET r == Process(p, t) IN
       /\ p' = r.p
       /\ lastErr' = r.err
       /\ firstPErr' = (IF firstPErr = NoErr THEN r.err ELSE firstPErr)
  /\ lastCall' = "Process"
  /\ eosBefore' = (eosBefore \/ lastCall = "ProcessEOS")
  /\ UNCHANGED <<inputVars, toolVars, codecVars, pc, renderVars, caller, next, res, parsed>>

DoProcessEOS ==
  /\ call = "Parse" /\ pc = "stream"
  /\ LET r == ProcessEOS(p) IN
       /\ p' = r.p
       /\ lastErr' = r.err
       /\ firstPErr' = (IF firstPErr = NoErr THEN r.err ELSE firstPErr)
  /\ lastCall' = "ProcessEOS"
  /\ eosBefore' = (eosBefore \/ lastCall = "ProcessEOS")
  /\ UNCHANGED <<inputVars, toolVars, codecVars, pc, renderVars, caller, next, res, parsed>>

\* ParseMessagesFromCompletionTokens on the tokens the stream was fed.
ParseBatch ==
  /\ call = "Parse" /\ pc = "stream"
  /\ pc' = "parsed"
  /\ parsed' = ParseMessagesFromCompletionTokens(p.tokens, hint)
  /\ UNCHANGED <<inputVars, toolVars, codecVars, renderVars, caller, next, res, parserVars>>

(***************************************************************************)
(* The tokenizer entry points                                              *)
(***************************************************************************)

\* The tokens the decoders are called on: the input of a "Decode" run, what
\* EncodeOrdinary returned in an "Encode" run.
decoderInput == IF call = "Decode" THEN codecIn ELSE encoded.bytes

EncodeOrdinaryCall ==
  /\ call = "Encode" /\ ~encoded.done
  /\ encoded' = [done |-> TRUE, ok |-> TRUE, bytes |-> EncodeOrdinary(codecIn)]
  /\ UNCHANGED <<inputVars, pc, renderVars, caller, next, res, parsed, parserVars, toolVars,
                 bytesOut, utf8Out>>

DecodeBytesCall ==
  /\ call = "Decode" \/ (call = "Encode" /\ encoded.done)
  /\ ~bytesOut.done
  /\ LET returned(r) == bytesOut' = [done |-> TRUE, ok |-> r.ok, bytes |-> r.bytes]
     IN returned(DecodeBytes(decoderInput))
  /\ UNCHANGED <<inputVars, pc, renderVars, caller, next, res, parsed, parserVars, toolVars,
                 encoded, utf8Out>>

DecodeUTF8Call ==
  /\ call = "Decode" \/ (call = "Encode" /\ encoded.done)
  /\ ~utf8Out.done
  /\ LET returned(r) == utf8Out' = [done |-> TRUE, ok |-> r.ok, bytes |-> r.bytes]
     IN returned(DecodeUTF8(decoderInput))
  /\ UNCHANGED <<inputVars, pc, renderVars, caller, next, res, parsed, parserVars, toolVars,
                 encoded, bytesOut>>

(***************************************************************************)
(* Concurrent renders of one tool description: parsedParameters            *)
(***************************************************************************)

\* The guard on t and len(t.Parameters), and the read of t.parsed in
\* "if t.parsed == nil".
PPEnter(g) ==
  /\ call = "Tools" /\ render[g].pc = "idle"
  /\ render' = [render EXCEPT ![g].pc =
                  IF ~toolParams.bytes THEN "returned"
                  ELSE IF tparsed = 0 THEN "alloc" ELSE "do"]
  /\ UNCHANGED <<inputVars, pc, renderVars, caller, next, res, parsed, parserVars,
                 codecVars, tparsed, caches, unmarshals>>

\* t.parsed = &toolParsedCache{}
PPAlloc(g) ==
  /\ call = "Tools" /\ render[g].pc = "alloc"
  /\ caches' = Append(caches, NewToolParsedCache)
  /\ tparsed' = Len(caches) + 1
  /\ render' = [render EXCEPT ![g].pc = "do"]
  /\ UNCHANGED <<inputVars, pc, renderVars, caller, next, res, parsed, parserVars,
                 codecVars, unmarshals>>

\* t.parsed.once.Do(...): the receiver is the cache t.parsed points to now.
\* The first caller on that cache enters the function; a caller that finds
\* the function running waits; a caller that finds it done goes on.
PPOnceDo(g) ==
  /\ call = "Tools" /\ render[g].pc = "do"
  /\ caches[tparsed].once # "running"
  /\ IF caches[tparsed].once = "new"
       THEN /\ caches' = [caches EXCEPT ![tparsed].once = "running"]
            /\ render' = [render EXCEPT ![g].pc = "unmarshal", ![g].once = tparsed]
       ELSE /\ render' = [render EXCEPT ![g].pc = "readValue"]
            /\ UNCHANGED caches
  /\ UNCHANGED <<inputVars, pc, renderVars, caller, next, res, parsed, parserVars,
                 codecVars, tparsed, unmarshals>>

\* json.Unmarshal(t.Parameters, &v) inside the function handed to once.Do.
PPUnmarshal(g) ==
  /\ call = "Tools" /\ render[g].pc = "unmarshal"
  /\ unmarshals' = unmarshals + 1
  /\ LET stored(r) ==
           render' = [render EXCEPT ![g].v = r.value,
                                    ![g].pc = IF r.err # NoErr THEN "storeErr"
                                              ELSE "storeValue"]
     IN stored(jsonUnmarshal(toolParams))
  /\ UNCHANGED <<inputVars, pc, renderVars, caller, next, res, parsed, parserVars,
                 codecVars, tparsed, caches>>

\* The stores of the function handed to once.Do, each through t.parsed as it
\* is at that statement; after the last store of a branch the function
\* returns and the Once of the cache it was called on is done.
PPStore(g) ==
  /\ call = "Tools" /\ render[g].pc \in {"storeErr", "storeValue", "storeKeys"}
  /\ IF render[g].pc = "storeErr"
       THEN /\ caches' = [[caches EXCEPT ![tparsed].err = jsonUnmarshal(toolParams).err]
                            EXCEPT ![render[g].once].once = "done"]
            /\ render' = [render EXCEPT ![g].pc = "readValue"]
       ELSE IF render[g].pc = "storeValue"
         THEN /\ caches' = [caches EXCEPT ![tparsed].value = render[g].v]
              /\ render' = [render EXCEPT ![g].pc = "storeKeys"]
         ELSE /\ caches' = [[caches EXCEPT ![tparsed].orderedKeys =
                                             orderedPropertyKeys(toolParams)]
                              EXCEPT ![render[g].once].once = "done"]
              /\ render' = [render EXCEPT ![g].pc = "readValue"]
  /\ UNCHANGED <<inputVars, pc, renderVars, caller, next, res, parsed, parserVars,
                 codecVars, tparsed, unmarshals>>

\* return t.parsed.value, t.parsed.orderedKeys, t.parsed.err: three reads
\* through t.parsed, left to right.
PPReturn(g) ==
  /\ call = "Tools" /\ render[g].pc \in {"readValue", "readKeys", "readErr"}
  /\ render' = IF render[g].pc = "readValue"
                 THEN [render EXCEPT ![g].value = caches[tparsed].value,
                                     ![g].pc = "readKeys"]
               ELSE IF render[g].pc = "readKeys"
                 THEN [render EXCEPT ![g].orderedKeys = caches[tparsed].orderedKeys,
                                     ![g].pc = "readErr"]
               ELSE [render EXCEPT ![g].err = caches[tparsed].err,
                                   ![g].pc = "returned"]
  /\ UNCHANGED <<inputVars, pc, renderVars, caller, next, res, parsed, parserVars,
                 codecVars, tparsed, caches, unmarshals>>

Next ==
  \/ \E env \in BOOLEAN, procs \in 1..MaxProcs : RCEnter(env, procs)
  \/ SeqStep
  \/ SeqReturn
  \/ ParSpawn
  \/ \E s \in 1..MaxMsgs : s <= Len(worker) /\ WorkerRender(s)
  \/ \E s \in 1..MaxMsgs : s <= Len(worker) /\ WorkerRelease(s)
  \/ \E s \in 1..MaxMsgs : s <= Len(worker) /\ WorkerDone(s)
  \/ ParReturn
  \/ ReturnConversation
  \/ \E nxt \in NextRoles : ReturnForCompletion(nxt)
  \/ ReturnForTraining
  \/ RenderCall
  \/ ParseRendered
  \/ \E t \in ParseTokens : DoProcess(t)
  \/ DoProcessEOS
  \/ ParseBatch
  \/ EncodeOrdinaryCall
  \/ DecodeBytesCall
  \/ DecodeUTF8Call
  \/ \E g \in 1..MaxRenders : PPEnter(g)
  \/ \E g \in 1..MaxRenders : PPAlloc(g)
  \/ \E g \in 1..MaxRenders : PPOnceDo(g)
  \/ \E g \in 1..MaxRenders : PPUnmarshal(g)
  \/ \E g \in 1..MaxRenders : PPStore(g)
  \/ \E g \in 1..MaxRenders : PPReturn(g)

Spec == Init /\ [][Next]_vars

(***************************************************************************)
(* RenderConversation under the Go scheduler                               *)
(***************************************************************************)

ConversationInit == Init /\ call = "RenderConversation"

ConversationNext ==
  \/ \E env \in BOOLEAN, procs \in 1..MaxProcs : RCEnter(env, procs)
  \/ SeqStep
  \/ SeqReturn
  \/ ParSpawn
  \/ \E s \in 1..MaxMsgs : s <= Len(worker) /\ WorkerRender(s)
  \/ \E s \in 1..MaxMsgs : s <= Len(worker) /\ WorkerRelease(s)
  \/ \E s \in 1..MaxMsgs : s <= Len(worker) /\ WorkerDone(s)
  \/ ParReturn
  \/ ReturnConversation
  \/ \E nxt \in NextRoles : ReturnForCompletion(nxt)
  \/ ReturnForTraining

\* Every goroutine that can take a step is scheduled in the end: the
\* spawning loop once a slot of sem is free, each worker for its render, its
\* receive from sem and its wg.Done, and the caller waiting in wg.Wait.
SchedulerFairness ==
  /\ WF_vars(ParSpawn)
  /\ \A s \in 1..MaxMsgs :
       /\ WF_vars(s <= Len(worker) /\ WorkerRender(s))
       /\ WF_vars(s <= Len(worker) /\ WorkerRelease(s))
       /\ WF_vars(s <= Len(worker) /\ WorkerDone(s))
  /\ WF_vars(ParReturn)

FairSpec == ConversationInit /\ [][ConversationNext]_vars /\ SchedulerFairness


(***************************************************************************)
(* Properties                                                              *)
(***************************************************************************)

Last(s) == s[Len(s)]

\* The tokens of the sequential loop over idx from position k, when every
\* message renders.
RECURSIVE sequentialTokens(_, _, _, _, _)
sequentialTokens(msgs, idx, o, k, dst) ==
  IF k > Len(idx) THEN dst
  ELSE sequentialTokens(msgs, idx, o, k + 1,
                        renderMessageInto(msgs[idx[k] + 1], o, dst).out)

\* The tokens of the parallel path: renderMessage of every slot, joined by
\* slot.
RECURSIVE parallelTokens(_, _, _, _)
parallelTokens(msgs, idx, o, k) ==
  IF k > Len(idx) THEN <<>>
  ELSE renderMessage(msgs[idx[k] + 1], o).toks \o parallelTokens(msgs, idx, o, k + 1)

\* C1: for every conversation and configuration, a successful
\* RenderConversation returns the same tokens on the sequential path and on
\* the parallel path: what the path taken returned is also what the other
\* path returns for the same retained messages and options.
C1_PathsAgree ==
  (call = "RenderConversation" /\ pc = "returned" /\ rc.err = NoErr) =>
     /\ rc.toks = sequentialTokens(conv, renderIdx, opts, 1, <<>>)
     /\ rc.toks = parallelTokens(conv, renderIdx, opts, 1)

\* Render of every retained message, joined in conversation order.
RECURSIVE concatRenders(_, _, _)
concatRenders(msgs, idx, k) ==
  IF k > Len(idx) THEN <<>>
  ELSE Render(msgs[idx[k] + 1]).toks \o concatRenders(msgs, idx, k + 1)

\* C2: a successful RenderConversation(C, cfg) returns the concatenation, in
\* conversation order, of Render(m) for the messages m it retained.
C2_ConcatOfRenders ==
  (call = "RenderConversation" /\ pc = "returned" /\ rc.err = NoErr) =>
     rc.toks = concatRenders(conv, renderIdx, 1)

\* The omission rule as the specification states it, for the 0-based index i.
specOmits(msgs, c, i) ==
  /\ autoDropOf(c)
  /\ lastAssistantFinalOf(msgs)
  /\ msgs[i + 1].role = RoleAssistant
  /\ msgs[i + 1].channel = ChAnalysis
  /\ firstFinalOf(msgs) >= 0
  /\ i < firstFinalOf(msgs)

InSeq(x, s) == \E k \in 1..Len(s) : s[k] = x

\* C3: RenderConversation omits a message if and only if auto-drop is on, the
\* last assistant message has channel final and the message is an assistant
\* message with channel analysis before the first final message; the
\* retained indices keep their order.
C3_OmitsOnlyAssistantAnalysis ==
  (call = "RenderConversation" /\ pc # "entry") =>
     /\ \A i \in 0..(Len(conv) - 1) : ~InSeq(i, renderIdx) <=> specOmits(conv, cfg, i)
     /\ \A k \in 1..(Len(renderIdx) - 1) : renderIdx[k] < renderIdx[k + 1]

lastIsAssistantFinal(msgs) ==
  Len(msgs) > 0 /\ msgs[Len(msgs)].role = RoleAssistant /\ msgs[Len(msgs)].channel = ChFinal

\* C4: a successful RenderConversationForTraining differs from what
\* RenderConversation returned in at most the last token; it differs exactly
\* when the last message is assistant/final, and then <|end|> became
\* <|return|>.
C4_TrainingLaw ==
  (pc = "done" /\ caller = "RenderConversationForTraining" /\ rc.err = NoErr) =>
     /\ res.err = NoErr
     /\ Len(res.toks) = Len(rc.toks)
     /\ \A k \in 1..(Len(rc.toks) - 1) : res.toks[k] = rc.toks[k]
     /\ (res.toks # rc.toks) <=> lastIsAssistantFinal(conv)
     /\ lastIsAssistantFinal(conv) =>
          (Last(rc.toks) = TokEnd /\ Last(res.toks) = TokReturn)

\* C5: a successful RenderConversationForCompletion(C, next, cfg) is what
\* RenderConversation returned, then the <|start|> id, then the ordinary BPE
\* encoding of the role name; an error of RenderConversation is passed on.
C5_CompletionLaw ==
  (pc = "done" /\ caller = "RenderConversationForCompletion") =>
     IF rc.err = NoErr
       THEN /\ res.err = NoErr
            /\ res.toks = rc.toks \o <<TokStart>> \o EncodeOrdinary(next)
       ELSE res.err = rc.err

\* C5 happens: a completion render of a conversation with rendered tokens.
C5_Witness ==
  /\ pc = "done" /\ caller = "RenderConversationForCompletion"
  /\ res.err = NoErr /\ Len(rc.toks) > 0 /\ next = RoleAssistant


\* Render was called on one assistant/final message with one text item.
isFinalTextMessage(m) ==
  /\ m.role = RoleAssistant /\ m.channel = ChFinal
  /\ Len(m.content) = 1 /\ m.content[1].type = ContentText

\* C6: for one assistant message M with channel final and any text body T,
\* special-token literals included, ParseMessagesFromCompletionTokens of
\* Render(M) yields exactly one message whose first content text is T.
C6_RoundTripText ==
  (call = "Render" /\ pc = "parsed" /\ isFinalTextMessage(conv[1])) =>
     /\ parsed.err = NoErr
     /\ Len(parsed.msgs) = 1
     /\ Len(parsed.msgs[1].content) >= 1
     /\ parsed.msgs[1].content[1].text = conv[1].content[1].text

\* C6 happens: the text of the message holds the literal <|end|>.
C6_Witness ==
  /\ call = "Render" /\ pc = "parsed" /\ isFinalTextMessage(conv[1])
  /\ Contains(conv[1].content[1].text, LitEnd)
  /\ Len(parsed.msgs) = 1

\* What the caller of the streaming parser has seen: the first error of any
\* call, otherwise Messages().
streamOutcome ==
  IF firstPErr # NoErr THEN [msgs |-> <<>>, err |-> firstPErr]
  ELSE [msgs |-> Messages(p), err |-> NoErr]

\* C7: ParseMessagesFromCompletionTokens(tokens, hint) returns what a
\* StreamParser built with the hint shows after Process on each token in
\* order and one ProcessEOS: the same messages, or an error where the stream
\* reported one.
C7_BatchIsStream ==
  (call = "Parse" /\ pc = "parsed" /\ lastCall = "ProcessEOS" /\ ~eosBefore) =>
     /\ (parsed.err # NoErr) <=> (firstPErr # NoErr)
     /\ parsed.err = NoErr => parsed = streamOutcome
     /\ parsed.err # NoErr => parsed.err = firstPErr

\* C7 happens: the tokens end inside a message body that ProcessEOS closes.
C7_Witness ==
  /\ call = "Parse" /\ pc = "parsed" /\ lastCall = "ProcessEOS" /\ ~eosBefore
  /\ parsed.err = NoErr /\ Len(parsed.msgs) >= 1
  /\ Len(p.tokens) >= 2 /\ Last(p.tokens) \notin stopAll
  /\ parsed.msgs[Len(parsed.msgs)].content # <<>>

\* The terminator as the specification states it.
specTerminator(m) ==
  IF m.role = RoleAssistant /\ m.recipient # <<>> /\ m.recipient # RcptAll
    THEN TokCall ELSE TokEnd

\* C8: every successfully rendered message ends with <|call|> if the role is
\* assistant and the recipient is non-empty and not "all", otherwise with
\* <|end|>; renderMessage (Render, the parallel workers) and
\* renderMessageInto (the sequential loop) choose the same one.
C8_Terminator ==
  /\ (call = "Render" /\ pc = "done" /\ res.err = NoErr) =>
        /\ Last(res.toks) = specTerminator(conv[1])
        /\ LET r == renderMessageInto(conv[1], opts, <<>>) IN
             r.err = NoErr /\ Last(r.out) = Last(res.toks)
  /\ (path = "sequential" /\ slot > 0 /\ rc.err = NoErr) =>
        Last(out) = specTerminator(conv[renderIdx[slot] + 1])
  /\ path = "parallel" =>
        \A s \in 1..Len(results) :
           results[s] # <<>> => Last(results[s]) = specTerminator(conv[renderIdx[s] + 1])

\* C8 happens: the sequential loop has rendered an assistant message with a
\* recipient, which ends with <|call|>.
C8_Witness ==
  /\ path = "sequential" /\ slot > 0 /\ rc.err = NoErr
  /\ conv[renderIdx[slot] + 1].role = RoleAssistant
  /\ conv[renderIdx[slot] + 1].recipient # <<>>
  /\ Last(out) = TokCall

\* A tool message without an author name.
namelessTool(m) == m.role = RoleTool /\ m.name = <<>>

\* C9: Render of a tool message with an empty author name, and
\* RenderConversation, ForCompletion and ForTraining of a conversation that
\* holds one, return an error.
C9_NamelessToolRejected ==
  (pc = "done" /\ \E i \in 1..Len(conv) : namelessTool(conv[i])) =>
     res.err # NoErr

\* C10: an error comes with no tokens and no messages: from Render, from
\* RenderConversation on either path and from its two wrappers, and from
\* ParseMessagesFromCompletionTokens.
C10_NoPartialResults ==
  /\ (pc \in {"returned", "done"} /\ rc.err # NoErr) => rc.toks = <<>>
  /\ (pc \in {"done", "parsed"} /\ res.err # NoErr) => res.toks = <<>>
  /\ (pc = "parsed" /\ parsed.err # NoErr) => parsed.msgs = <<>>

\* C10 happens: the sequential loop fails after an earlier message was
\* appended to out.
C10_Witness ==
  /\ pc = "returned" /\ path = "sequential" /\ rc.err # NoErr
  /\ slot > 0 /\ Len(out) > 1


\* What a render takes from a cache that was filled by one complete parse.
parsedOnceResult(raw) ==
  [value |-> jsonUnmarshal(raw).value,
   orderedKeys |-> IF jsonUnmarshal(raw).err = NoErr THEN orderedPropertyKeys(raw) ELSE <<>>,
   err |-> jsonUnmarshal(raw).err]

\* C11: when several renders of the same tool description run concurrently,
\* the tool's parameter JSON is parsed at most once, and every render that
\* has returned from parsedParameters observed the same parsed value, key
\* order and error: those of the one parse.
C11_ParsedAtMostOnce ==
  call = "Tools" =>
    /\ unmarshals <= 1
    /\ \A g \in 1..MaxRenders :
         (render[g].pc = "returned" /\ toolParams.bytes) =>
            [value |-> render[g].value, orderedKeys |-> render[g].orderedKeys,
             err |-> render[g].err] = parsedOnceResult(toolParams)

\* The goroutines that hold an element of sem: started and not yet past
\* "<-sem".
holdingSem == {s \in 1..Len(worker) : worker[s] \in {"running", "rendered"}}

\* C12: on the parallel path the number of render workers running at the
\* same time never exceeds the parallelism limit, which is the capacity of
\* sem and at least 1, for any number of retained messages.
C12_WorkersBounded ==
  path = "parallel" =>
    /\ maxWorkers >= 1
    /\ Cardinality(holdingSem) <= maxWorkers
    /\ sem = Cardinality(holdingSem)

\* More retained messages than the limit: the limit is reached and the
\* spawning loop waits.
C12_Witness ==
  /\ pc = "parallel" /\ Len(renderIdx) > maxWorkers
  /\ Cardinality(holdingSem) = maxWorkers /\ slot < Len(renderIdx)

\* C13: on the parallel path firstErr is the first error handed to errOnce
\* (a later error never replaces it and a successful worker never clears
\* it), and when a worker failed RenderConversation returns that error with
\* no tokens, after every worker has finished.
C13_FirstErrorReturned ==
  path = "parallel" =>
    /\ firstErr = (IF failures = <<>> THEN NoErr ELSE failures[1])
    /\ (pc \in {"returned", "done"} /\ failures # <<>>) =>
          /\ rc = [toks |-> <<>>, err |-> failures[1]]
          /\ \A s \in 1..Len(renderIdx) : worker[s] = "done"

\* Two workers failed with different errors, the worker of the second slot
\* first, one other worker succeeded or failed later, and the call returned.
C13_Witness ==
  /\ path = "parallel" /\ pc = "returned"
  /\ Len(failures) = 2 /\ failures[1] # failures[2]
  /\ failures[1] = rendered[2].err
  /\ rc.err = failures[1]

\* A message of one text item whose header carries a recipient other than
\* "all", a channel and a content-type; a tool message has a name.
hasFullHeader(m) ==
  /\ Len(m.content) = 1 /\ m.content[1].type = ContentText
  /\ (m.role = RoleTool => m.name # <<>>)
  /\ m.recipient # <<>> /\ m.recipient # RcptAll
  /\ m.channel # <<>>
  /\ m.contentType # <<>>

readsAsNamedRole(name) ==
  \E r \in {RoleUser, RoleAssistant, RoleSystem, RoleDeveloper} :
     name = r \/ HasPrefix(name, r \o <<":">>)

\* The string is one header word: no space and no "<".
isHeaderWord(s) == \A i \in 1..Len(s) : s[i] \notin {" ", "<"}

\* A message of one text item whose header fields are header words (the
\* content-type after an optional leading <|constrain|>), whose recipient is
\* not "all", and whose tool name, for a tool message, is not empty and does
\* not read as a named role.
hasPlainHeader(m) ==
  /\ Len(m.content) = 1 /\ m.content[1].type = ContentText
  /\ m.recipient # RcptAll
  /\ isHeaderWord(m.name) /\ isHeaderWord(m.recipient) /\ isHeaderWord(m.channel)
  /\ isHeaderWord(TrimPrefix(m.contentType, LitConstrain))
  /\ (m.role = RoleTool => (m.name # <<>> /\ ~readsAsNamedRole(m.name)))

C15_OnlyFullyParsedMessages ==
  call = "Parse" =>
    \A i \in 1..Len(Messages(p)) : Messages(p)[i].content # <<>>

\* utf8.ValidString over the bytes of the model.
RECURSIVE utf8Valid(_, _)
utf8Valid(s, j) ==
  IF j >= Len(s) THEN TRUE
  ELSE /\ utf8DecodeRuneInString(s, j).r # RuneError
       /\ utf8Valid(s, j + utf8DecodeRuneInString(s, j).size)

\* C16: when the bytes accumulated from the tokens are not valid UTF-8,
\* DecodeUTF8 fails with a decode error, while DecodeBytes, which does not
\* validate, succeeds on the same tokens.
C16_DecodeUTF8Validates ==
  (call = "Decode" /\ bytesOut.done /\ utf8Out.done
     /\ DecodeBytes(codecIn).ok /\ ~utf8Valid(DecodeBytes(codecIn).bytes, 0)) =>
        /\ bytesOut.ok
        /\ ~utf8Out.ok

\* The text holds the literal of a special token.
hasSpecialLiteral(text) == \E sp \in HarmonySpecials : Contains(text, sp.lit)

\* The end of the segment that starts at i, as the encoder's loop takes it.
segmentEnd(text, i) == IF SegNext(text, i) <= i THEN i + 1 ELSE SegNext(text, i)

\* The tokens the encoder emits for one segment.
segmentTokens(piece) ==
  IF EncLookup(piece).ok THEN <<EncLookup(piece).rank>> ELSE bytePairEncode(piece)

\* Every segment from i on decodes to its own bytes.
RECURSIVE segmentsDecode(_, _)
segmentsDecode(text, i) ==
  IF i >= Len(text) THEN TRUE
  ELSE /\ DecodeBytes(segmentTokens(Slice(text, i, segmentEnd(text, i))))
            = [ok |-> TRUE, bytes |-> Slice(text, i, segmentEnd(text, i))]
       /\ segmentsDecode(text, segmentEnd(text, i))

\* The tokens of the segments from i on, in order.
RECURSIVE segmentsTokens(_, _)
segmentsTokens(text, i) ==
  IF i >= Len(text) THEN <<>>
  ELSE segmentTokens(Slice(text, i, segmentEnd(text, i)))
         \o segmentsTokens(text, segmentEnd(text, i))

\* C17: for every valid UTF-8 text T with no embedded special literal,
\* DecodeUTF8(EncodeOrdinary(T)) = T; the encoding is the tokens of T's
\* segments in order, and the tokens of each segment decode to exactly that
\* segment's bytes.
C17_BPERoundTrip ==
  (call = "Encode" /\ utf8Out.done /\ utf8Valid(codecIn, 0) /\ ~hasSpecialLiteral(codecIn)) =>
     /\ utf8Out.ok /\ utf8Out.bytes = codecIn
     /\ encoded.bytes = segmentsTokens(codecIn, 0)
     /\ segmentsDecode(codecIn, 0)

\* A text with a two-byte rune and a segment that took a merge was encoded
\* and decoded back.
C17_Witness ==
  /\ call = "Encode" /\ utf8Out.done /\ utf8Valid(codecIn, 0) /\ ~hasSpecialLiteral(codecIn)
  /\ \E i \in 1..Len(codecIn) : codecIn[i] = "xC3"
  /\ \E i \in 0..(Len(codecIn) - 1) :
        /\ SegNext(codecIn, i) > i
        /\ ~EncLookup(Slice(codecIn, i, SegNext(codecIn, i))).ok
        /\ Len(bytePairEncode(Slice(codecIn, i, SegNext(codecIn, i))))
             < SegNext(codecIn, i) - i
  /\ utf8Out.bytes = codecIn

\* The id has a decoding: it is in the rank table or is a special id.
hasDecoding(t) == InRankTable(t) \/ IsSpecialToken(t)

\* This step is a call of Process: one token was appended to the tokens fed.
isProcessStep == call = "Parse" /\ Len(p'.tokens) = Len(p.tokens) + 1

\* What one Process call in state Content has to do with token t.
contentStep(t) ==
  IF t \in {TokEnd, TokReturn, TokCall}
    THEN /\ lastErr' = NoErr
         /\ p'.state = stExpectStart
         /\ p'.messages =
              [p.messages EXCEPT ![Len(p.messages)].content =
                 <<TextItem(DecodeUTF8(p.contentToks).bytes)>>]
    ELSE /\ lastErr' = NoErr
         /\ p'.state = stContent
         /\ p'.contentToks = Append(p.contentToks, t)
         /\ p'.lastDeltaBytes = DecodeBytes(<<t>>).bytes
         /\ p'.messages = p.messages

\* C18: in state Content a token finalizes the in-flight message (its
\* content becomes one text item, the decoding of the accumulated content
\* tokens) and moves the parser to ExpectStart if and only if it is <|end|>,
\* <|return|> or <|call|>; any other token of the vocabulary, <|start|>,
\* <|message|> and <|channel|> included, is appended to the content buffer,
\* leaves the state Content and sets the last delta to its own decoding.
C18_ContentTokens ==
  [][(isProcessStep /\ p.state = stContent /\ firstPErr = NoErr
        /\ hasDecoding(Last(p'.tokens)))
       => contentStep(Last(p'.tokens))]_vars

\* <|start|> and a text token were taken as content and <|call|> finalized
\* the message.
C18_Witness ==
  /\ call = "Parse" /\ lastCall = "Process" /\ firstPErr = NoErr
  /\ Len(p.tokens) > 2 /\ Last(p.tokens) = TokCall
  /\ p.state = stExpectStart
  /\ Len(p.messages) = 1
  /\ p.messages[1].content = <<TextItem(LitStart \o ChFinal)>>

\* The effect of Process(t) on a parser in state ExpectStart.
expectStartStep(t) ==
  IF t = TokStart
    THEN /\ lastErr' = NoErr
         /\ p'.state = stHeader
         /\ p'.headerToks = <<>>
    ELSE /\ lastErr' = ErrExpectStart
         /\ p'.state = stExpectStart
         /\ p'.messages = p.messages

\* C19: a parser built without a role hint starts in ExpectStart and one built
\* with a hint starts in Header; in state ExpectStart, Process(<|start|>) clears
\* the header buffer and moves to Header, and Process of any other token
\* returns a parse error and leaves the state ExpectStart and the message list
\* as they were.
C19_ExpectStart ==
  /\ [](lastCall = "NewStreamParser" =>
          p.state = (IF hint = <<>> THEN stExpectStart ELSE stHeader))
  /\ [][(isProcessStep /\ p.state = stExpectStart)
          => expectStartStep(Last(p'.tokens))]_vars

\* An unhinted parser took <|start|>, parsed one message and then rejected a
\* token that is not <|start|>.
C19_Witness ==
  /\ call = "Parse" /\ hint = <<>> /\ lastCall = "Process"
  /\ Len(p.tokens) > 3 /\ p.tokens[1] = TokStart
  /\ lastErr = ErrExpectStart /\ firstPErr = ErrExpectStart
  /\ p.state = stExpectStart /\ Len(p.messages) = 1

\* The parser was built with a role hint and is still collecting the header
\* of its first message.
hintedInitial == hint # <<>> /\ p.nextRole # <<>> /\ Len(p.messages) = 0

\* C20: a <|start|> received in state Header is ignored when the parser began
\* with a role hint and is still collecting that first header, and is a parse
\* error in every other Header situation.
C20_StrayStartOnlyWhenHinted ==
  [][(isProcessStep /\ p.state = stHeader /\ Last(p'.tokens) = TokStart)
       => IF hintedInitial
            THEN lastErr' = NoErr /\ p'.state = stHeader /\ p'.headerToks = p.headerToks
            ELSE lastErr' # NoErr]_vars

\* A step that is one call of ProcessEOS on the streaming parser.
isEOSStep == call = "Parse" /\ pc = "stream" /\ pc' = "stream" /\ lastCall' = "ProcessEOS"

\* The last message with the decoding of the content buffer as its one text item.
finalizedMessages ==
  [p.messages EXCEPT ![Len(p.messages)].content =
                        <<TextItem(DecodeUTF8(p.contentToks).bytes)>>]

\* C21: ProcessEOS finalizes the in-flight message when the parser is in
\* Content; in ExpectStart and Header it returns nil and leaves the state, the
\* buffers and the message list as they were; it never adds a token to the
\* token log.
C21_ProcessEOS ==
  [][(isEOSStep /\ firstPErr = NoErr)
       => /\ lastErr' = NoErr
          /\ p'.tokens = p.tokens
          /\ p'.state = p.state
          /\ IF p.state = stContent
               THEN p'.messages = finalizedMessages
               ELSE p' = p]_vars

\* The stream ended inside the content of the first message, which now holds
\* the text that was collected.
C21_Witness ==
  /\ call = "Parse" /\ lastCall = "ProcessEOS" /\ ~eosBefore /\ firstPErr = NoErr
  /\ p.state = stContent /\ Len(p.messages) = 1
  /\ p.messages[1].content = <<TextItem(ChFinal)>>
  /\ Last(p.tokens) # TokEnd

\* The role and the name that detectRoleAndAuthor reads in the header buffer.
detectedAuthor ==
  LET split(parts) == detectRoleAndAuthor(parts[1], parts[2])
  IN split(splitLeadingToken(normalizeHeader(DecodeUTF8(p.headerToks).bytes)))

\* The author the claim gives to a message whose header ends at this step.
hintedAuthor(det) ==
  IF p.nextRole = <<>> THEN det
  ELSE <<p.nextRole[1],
         IF p.nextRole[1] = RoleTool \/ det[1] # RoleTool THEN det[2] ELSE <<>> >>

\* C22: with a role hint, the first parsed message takes the hinted role; the
\* name read in the header is kept only when the hint is tool or the header
\* gave a role:name alias, otherwise the name is empty; the hint is cleared
\* at the first <|message|>, so later messages take the detected role.
C22_HintOverridesRole ==
  [][(isProcessStep /\ p.state = stHeader /\ firstPErr = NoErr
        /\ Last(p'.tokens) = TokMessage /\ lastErr' = NoErr)
       => /\ p'.nextRole = <<>>
          /\ Len(p'.messages) = Len(p.messages) + 1
          /\ Last(p'.messages).role = hintedAuthor(detectedAuthor)[1]
          /\ Last(p'.messages).name = hintedAuthor(detectedAuthor)[2]]_vars

\* The accessors of the streaming parser; <<>> is nil for the role and the
\* empty string for the others.
CurrentRole(q) ==
  IF q.state = stContent
    THEN IF Len(q.messages) = 0 THEN <<>> ELSE <<Last(q.messages).role>>
    ELSE q.nextRole

CurrentContent(q) ==
  IF q.state # stContent THEN <<>>
  ELSE LET decoded(d) == IF d.ok THEN d.bytes ELSE <<>>
       IN decoded(DecodeUTF8(q.contentToks))

CurrentContentType(q) ==
  IF q.state # stContent \/ Len(q.messages) = 0 THEN <<>>
  ELSE Last(q.messages).contentType

CurrentChannel(q) ==
  IF q.state # stContent \/ Len(q.messages) = 0 THEN <<>> ELSE Last(q.messages).channel

CurrentRecipient(q) ==
  IF q.state # stContent \/ Len(q.messages) = 0 THEN <<>> ELSE Last(q.messages).recipient

LastContentDelta(q) == q.lastDeltaBytes

\* The role hint, as long as no header has consumed it.
unconsumedHint == IF Len(p.messages) = 0 THEN hint ELSE <<>>

\* The accessors other than LastContentDelta, outside Content.
quietOutsideContent ==
  (call = "Parse" /\ p.state # stContent) =>
    /\ CurrentRole(p) = unconsumedHint
    /\ CurrentChannel(p) = <<>>
    /\ CurrentRecipient(p) = <<>>
    /\ CurrentContentType(p) = <<>>
    /\ CurrentContent(p) = <<>>

\* C23: whenever the parser is not in state Content, CurrentRole returns the
\* unconsumed role hint if any and otherwise nil, and CurrentChannel,
\* CurrentRecipient, CurrentContentType, CurrentContent and LastContentDelta
\* return the empty string.
C23_AccessorsOutsideContent ==
  /\ quietOutsideContent
  /\ (call = "Parse" /\ p.state # stContent) => LastContentDelta(p) = <<>>

\* C24: once Process has returned an error, every later Process call on the
\* same parser returns an error too, and the message list never changes again.
C24_ErrorIsFatal ==
  [][(call = "Parse" /\ firstPErr # NoErr)
       => /\ p'.messages = p.messages
          /\ isProcessStep => lastErr' # NoErr]_vars

\* The "for i := 0; i < len(text);" loop of collectSegments: the segments of
\* text from index i on, in order.
RECURSIVE collectSegments(_, _)
collectSegments(text, i) ==
  IF i >= Len(text) THEN <<>>
  ELSE LET rest(end) == <<Slice(text, i, end)>> \o collectSegments(text, end)
       IN rest(SegNext(text, i))

RECURSIVE concatAll(_)
concatAll(parts) == IF parts = <<>> THEN <<>> ELSE Head(parts) \o concatAll(Tail(parts))

\* C25: for every text s and every index i with 0 <= i < len(s), Next(s, i) is
\* greater than i and at most len(s); so calling Next repeatedly from 0 ends,
\* and cuts s into consecutive segments none of which is empty.
C25_SegmenterProgress ==
  call = "Encode" =>
    /\ \A i \in 0..(Len(codecIn) - 1) :
         SegNext(codecIn, i) > i /\ SegNext(codecIn, i) <= Len(codecIn)
    /\ LET cut(parts) ==
             /\ \A k \in 1..Len(parts) : parts[k] # <<>>
             /\ concatAll(parts) = codecIn
       IN cut(collectSegments(codecIn, 0))

\* A text of several segments has been encoded: a word with a contraction,
\* two spaces, four digits, a line break and a letter.
C25_Witness ==
  /\ call = "Encode" /\ encoded.done
  /\ Len(codecIn) > MaxText
  /\ Len(collectSegments(codecIn, 0)) = 6

(***************************************************************************)
(* slowSegmenter: every code point classified by Unicode category          *)
(***************************************************************************)

\* r, sz := rune(s[j]), 1; if r >= 0x80 { r, sz = utf8DecodeRuneInString(s[j:]) }
slowRune(s, j) ==
  IF IsASCIIByte(At(s, j)) THEN [r |-> At(s, j), size |-> 1]
  ELSE utf8DecodeRuneInString(s, j)

RECURSIVE slowRuleWhitespace(_, _)
slowRuleWhitespace(s, j) ==
  IF j >= Len(s) THEN j
  ELSE LET step(d) == IF ~isSpace(d.r) THEN j ELSE slowRuleWhitespace(s, j + d.size)
       IN step(slowRune(s, j))

RECURSIVE slowConsumeLetterRun(_, _)
slowConsumeLetterRun(s, j) ==
  IF j >= Len(s) THEN j
  ELSE LET step(d) == IF ~isL(d.r) THEN j ELSE slowConsumeLetterRun(s, j + d.size)
       IN step(slowRune(s, j))

slowRuleLettersWithContraction(s, i) ==
  LET after(end) == IF end > i THEN matchContraction(s, end) ELSE i
  IN after(slowConsumeLetterRun(s, i))

slowRuleLettersWithPrefixAndContraction(s, i) ==
  LET after(j, end) == IF end > j THEN matchContraction(s, end) ELSE i
      prefixed(d) ==
        IF ~(~isSpace(d.r) /\ ~isL(d.r) /\ ~isN(d.r))
          THEN slowRuleLettersWithContraction(s, i)
          ELSE after(i + d.size, slowConsumeLetterRun(s, i + d.size))
  IN prefixed(slowRune(s, i))

RECURSIVE slowNumbersLoop(_, _, _)
slowNumbersLoop(s, j, count) ==
  IF j >= Len(s) THEN j
  ELSE LET step(d) ==
             IF ~isN(d.r) \/ count >= 3 THEN j
             ELSE slowNumbersLoop(s, j + d.size, count + 1)
       IN step(slowRune(s, j))

slowRuleNumbers(s, i) == slowNumbersLoop(s, i, 0)

RECURSIVE slowPunctLoop(_, _)
slowPunctLoop(s, j) ==
  IF j >= Len(s) THEN j
  ELSE LET step(d) ==
             IF isSpace(d.r) \/ isL(d.r) \/ isN(d.r) THEN j
             ELSE slowPunctLoop(s, j + d.size)
       IN step(slowRune(s, j))

slowRulePunctRun(s, i) ==
  LET closing(j1, d) == IF d.r \in {"\r", "\n", "/"} THEN j1 + d.size ELSE j1
      trailer(j0, j1) ==
        IF j1 = j0 THEN i
        ELSE IF j1 < Len(s) THEN closing(j1, slowRune(s, j1)) ELSE j1
      run(j0) == trailer(j0, slowPunctLoop(s, j0))
      leading(d) == IF isSpace(d.r) THEN i + d.size ELSE i
  IN run(IF i < Len(s) THEN leading(slowRune(s, i)) ELSE i)

RECURSIVE slowSpacesNoNewlineLoop(_, _)
slowSpacesNoNewlineLoop(s, j) ==
  IF j >= Len(s) THEN j
  ELSE LET step(d) ==
             IF ~isSpace(d.r) \/ d.r = "\r" \/ d.r = "\n" THEN j
             ELSE slowSpacesNoNewlineLoop(s, j + d.size)
       IN step(slowRune(s, j))

RECURSIVE slowCrlfLoop(_, _)
slowCrlfLoop(s, j) ==
  IF j >= Len(s) THEN j
  ELSE LET step(d) ==
             IF d.r # "\r" /\ d.r # "\n" THEN j ELSE slowCrlfLoop(s, j + d.size)
       IN step(slowRune(s, j))

slowRuleNewlines(s, i) ==
  LET more(j0, j1) == IF j1 = j0 THEN i ELSE slowCrlfLoop(s, j1)
      newlines(j0) == more(j0, slowCrlfLoop(s, j0))
  IN newlines(slowSpacesNoNewlineLoop(s, i))

\* slowSegmenter.Next.  Its first loop scans whitespace code points from i and
\* finds the rest all whitespace when it runs to the end of s, which is the
\* scan of slowRuleWhitespace.
slowNext(s, i) ==
  IF i >= Len(s) THEN i
  ELSE IF slowRuleWhitespace(s, i) >= Len(s) THEN Len(s)
  ELSE LET orElse(j, rest) == IF j > i THEN j ELSE rest IN
       orElse(slowRuleLettersWithPrefixAndContraction(s, i),
       orElse(slowRuleLettersWithContraction(s, i),
       orElse(slowRuleNumbers(s, i),
       orElse(slowRulePunctRun(s, i),
       orElse(slowRuleNewlines(s, i),
       orElse(slowRuleWhitespace(s, i), i + 1))))))

\* C26: for every text s and every index i below len(s), the ASCII-fast-pathed
\* o200kSegmenter.Next(s, i) returns the index that the reference segmenter,
\* which classifies every code point by Unicode category, returns.
C26_FastPathEquivalent ==
  call = "Encode" =>
    \A i \in 0..(Len(codecIn) - 1) : SegNext(codecIn, i) = slowNext(codecIn, i)

\* A text with ASCII punctuation, letters, a two-byte letter and a two-byte
\* space has been encoded.
C26_Witness ==
  /\ call = "Encode" /\ encoded.done
  /\ Len(codecIn) > MaxText
  /\ \E i \in 1..(Len(codecIn) - 1) : codecIn[i] = "xC2" /\ codecIn[i + 1] = "xA0"
  /\ slowNext(codecIn, 8) = 15

\* C27: a ProcessEOS call that follows a ProcessEOS call, with no Process
\* call in between, leaves the message list, the content of the last message
\* included, as the first call left it.
C27_EOSIdempotent ==
  [][(isEOSStep /\ lastCall = "ProcessEOS") => p'.messages = p.messages]_vars

\* The k-th message has been finalized: a later message exists, or a stop
\* token closed it, or the call just made was a ProcessEOS that finalized it.
isFinalized(k) ==
  \/ k < Len(p.messages)
  \/ p.state # stContent
  \/ lastCall = "ProcessEOS" /\ lastErr = NoErr

\* Messages closed by a stop token keep their fields and content, the list
\* never shrinks, and it grows by one exactly when Process takes <|message|>
\* in state Header without error.
stopFinalizedKept ==
  [][call = "Parse" =>
       /\ Len(p'.messages) =
            Len(p.messages) +
              (IF isProcessStep /\ p.state = stHeader
                    /\ Last(p'.tokens) = TokMessage /\ lastErr' = NoErr
                 THEN 1 ELSE 0)
       /\ \A k \in 1..Len(p.messages) :
            (k < Len(p.messages) \/ p.state # stContent)
              => p'.messages[k] = p.messages[k]]_vars

\* C28: once a message has been finalized, by a stop token or by ProcessEOS,
\* no later Process or ProcessEOS call changes its fields or its content; the
\* list never shrinks, and its length is the number of <|message|> tokens
\* taken in state Header.
C28_AppendOnly ==
  [][call = "Parse" =>
       /\ Len(p'.messages) =
            Len(p.messages) +
              (IF isProcessStep /\ p.state = stHeader
                    /\ Last(p'.tokens) = TokMessage /\ lastErr' = NoErr
                 THEN 1 ELSE 0)
       /\ \A k \in 1..Len(p.messages) :
            isFinalized(k) => p'.messages[k] = p.messages[k]]_vars

\* The indices of toks that hold one of the ids.
positionsOf(toks, ids) == {k \in 1..Len(toks) : toks[k] \in ids}

\* A header field or the body of the message holds a special-token literal.
holdsSpecialLiteral(m) ==
  \/ hasSpecialLiteral(m.name)
  \/ hasSpecialLiteral(m.recipient)
  \/ hasSpecialLiteral(m.channel)
  \/ \E k \in 1..Len(m.content) : hasSpecialLiteral(m.content[k].text)

\* C29: every successful render of one message starts with <|start|>, holds
\* exactly one <|message|> id, and holds a stop id (<|end|>, <|return|>,
\* <|call|>) as its last token and nowhere else, whatever strings the fields
\* of the message hold.
C29_RenderFrame ==
  (call = "Render" /\ pc # "entry" /\ res.err = NoErr) =>
     /\ Len(res.toks) >= 3
     /\ res.toks[1] = TokStart
     /\ Cardinality(positionsOf(res.toks, {TokMessage})) = 1
     /\ positionsOf(res.toks, {TokEnd, TokReturn, TokCall}) = {Len(res.toks)}

\* A message whose name is the literal <|message|>, whose recipient is the
\* literal <|call|> and whose text holds the literal <|end|> was rendered.
C29_Witness ==
  /\ call = "Render" /\ pc = "done" /\ res.err = NoErr
  /\ conv[1].name = LitMessage /\ conv[1].recipient = LitCall
  /\ Len(conv[1].content) = 1 /\ Contains(conv[1].content[1].text, LitEnd)
  /\ holdsSpecialLiteral(conv[1])
  /\ Last(res.toks) \in {TokEnd, TokCall}

\* Every worker that was started has released its slot and signalled
\* completion.
allWorkersDone ==
  /\ sem = 0 /\ wg = 0
  /\ \A s \in 1..Len(worker) : worker[s] = "done"

\* C30: the parallel render path always ends: every started worker releases
\* its semaphore slot and signals completion, the spawning loop does not stay
\* blocked on the semaphore, and RenderConversation returns after all workers
\* have finished, whichever workers fail.
C30_ParallelTerminates ==
  /\ \A s \in 1..MaxMsgs :
       (pc = "parallel" /\ s <= Len(worker) /\ worker[s] = "running")
         ~> (s <= Len(worker) /\ worker[s] = "done")
  /\ (pc = "parallel" /\ slot < Len(renderIdx)) ~> (slot = Len(renderIdx))
  /\ (pc = "parallel") ~> (pc = "returned" /\ allWorkersDone)

\* Two messages were rendered by workers that had one slot to share, and the
\* conversation returned their tokens.
C30_Witness ==
  /\ call = "RenderConversation" /\ pc = "returned" /\ path = "parallel"
  /\ maxWorkers = 1 /\ Len(worker) = 2 /\ allWorkersDone
  /\ rc.err = NoErr /\ rc.toks # <<>>

====
